---- MODULE Spec2Model ----
(***************************************************************************)
(* Model of libfs, the glue code common to all HelenOS file system         *)
(* servers: libfs_lookup(), the generic path-resolution engine that walks  *)
(* a canonical path held in the Path Lookup Buffer (PLB) against the       *)
(* file-system specific operations table libfs_ops_t.                      *)
(*                                                                         *)
(* The engine is modelled statement group by statement group: one action   *)
(* per group of statements that ends in (at most) one mutating or          *)
(* reference-acquiring call of the operations table, so that the calls of  *)
(* concurrently running lookups interleave at the granularity of a call.   *)
(* The operations table itself (the backend) is not part of the glue code; *)
(* it is modelled as a small node store.                                   *)
(***************************************************************************)
EXTENDS Integers, Sequences, FiniteSets, TLC

(***************************************************************************)
(* Program constants (scaled down) and model bounds.                       *)
(***************************************************************************)
NULL == -1              \* the absent node reference
PLB_SIZE == 8           \* capacity of the circular path lookup buffer
NAME_MAX == 3           \* maximum name length
FsHandle == 7           \* fs_handle passed to libfs_lookup by the server
DevHandle == 1          \* device handle carried by the requests

MaxNodes == 6           \* size of the backend's node table
MaxLookups == 1         \* number of lookup requests served in one behaviour
MaxSeq == 2             \* number of creation requests served one after another
MaxWindows == 3         \* number of windows
MaxControls == 3        \* number of controls

Procs == {1, 2}         \* connection fibrils able to run libfs_lookup
NodeIds == 0 .. (MaxNodes - 1)

L_FILE == "L_FILE"
L_DIRECTORY == "L_DIRECTORY"
L_EXCLUSIVE == "L_EXCLUSIVE"
L_CREATE == "L_CREATE"
L_LINK == "L_LINK"
L_UNLINK == "L_UNLINK"
L_PARENT == "L_PARENT"
LFlags == {L_FILE, L_DIRECTORY, L_EXCLUSIVE, L_CREATE, L_LINK, L_UNLINK, L_PARENT}

EOK == "EOK"
ENOENT == "ENOENT"
ENOTDIR == "ENOTDIR"
EISDIR == "EISDIR"
EEXIST == "EEXIST"
ENOSPC == "ENOSPC"
ENOMEM == "ENOMEM"
EBUSY == "EBUSY"
ENOTEMPTY == "ENOTEMPTY"
ENAMETOOLONG == "ENAMETOOLONG"

(***************************************************************************)
(* Canonical paths the coordinator asks about.  Characters are one-letter  *)
(* strings; "/" is the separator.                                          *)
(***************************************************************************)
Paths ==
    { <<"/">>,
      <<"/", "a">>,
      <<"/", "a", "/", "b">>,
      <<"a", "/", "b">>,
      <<"/", "a", "/", "a">>,
      <<"/", "b", "/", "a">>,
      <<"/", "a", "/", "b", "/", "a">>,
      <<"/", "b", "/", "a", "/", "b">>,
      <<"/", "a", "a">>,
      <<"/", "a", "a", "a">>,
      <<"/", "a", "a", "/", "b">>,
      <<"/", "b", "/", "a", "a">>,
      <<"/", "b", "/", "a", "a", "a">> }

Offsets == {0, PLB_SIZE - 2}    \* where in the PLB the coordinator puts a path
WrapOffsets == {PLB_SIZE - 2, PLB_SIZE - 1}
Indices == {3, MaxNodes - 1}    \* link target indices carried by L_LINK requests
Pad == "#"                      \* content of the PLB outside the path

VARIABLES
    plb,        \* the path lookup buffer: [0 .. PLB_SIZE-1 -> character]
    nodes,      \* the backend's node table
    lk,         \* per fibril: the frame of libfs_lookup (its locals and position)
    answers,    \* per fibril: the answers sent for the request being served
    trace,      \* per fibril: the operations-table calls and answers, in order
    held,       \* per fibril: node -> references acquired and not yet released
    req,        \* per fibril: the request as the coordinator issued it
    pre,        \* per fibril: the node table when the request was issued
    served,     \* number of requests issued so far
    hist,       \* the path and node of the preceding lookup when it created a node
    twin,       \* outcome of the wrapped run a contiguous re-run is compared to
    reg,        \* fs_register(): its position, fs_reg_t and the pending call
    ui          \* the windows' control pointers and the controls' elemp pointers

vars == <<plb, nodes, lk, answers, trace, held, req, pre, served, hist, twin, reg,
          ui>>

(***************************************************************************)
(* The backend: the node store behind libfs_ops_t.                         *)
(***************************************************************************)
FreeNode == [alive |-> FALSE, isdir |-> FALSE, kids |-> {}, lnkcnt |-> 0, size |-> 0]

\* /a is a directory holding the file /a/b; /b is an empty directory.
InitNodes ==
    [n \in NodeIds |->
        CASE n = 0 -> [alive |-> TRUE, isdir |-> TRUE,
                       kids |-> {<< <<"a">>, 1 >>, << <<"b">>, 2 >>},
                       lnkcnt |-> 0, size |-> 0]
          [] n = 1 -> [alive |-> TRUE, isdir |-> TRUE,
                       kids |-> {<< <<"b">>, 3 >>}, lnkcnt |-> 1, size |-> 0]
          [] n = 2 -> [alive |-> TRUE, isdir |-> TRUE, kids |-> {},
                       lnkcnt |-> 1, size |-> 0]
          [] n = 3 -> [alive |-> TRUE, isdir |-> FALSE, kids |-> {},
                       lnkcnt |-> 1, size |-> 5]
          [] OTHER -> FreeNode]

root_get(dev) == 0

has_children(nd, n) == nd[n].kids # {}

match(nd, n, component) ==
    IF \E e \in nd[n].kids : e[1] = component
    THEN (CHOOSE e \in nd[n].kids : e[1] = component)[2]
    ELSE NULL

is_directory(nd, n) == nd[n].isdir

is_file(nd, n) == ~nd[n].isdir

index_get(nd, n) == n

size_get(nd, n) == nd[n].size

lnkcnt_get(nd, n) == nd[n].lnkcnt

node_get(nd, dev, index) ==
    IF index \in NodeIds /\ nd[index].alive THEN index ELSE NULL

\* create(): the node handed out, NULL when the backend cannot allocate one.
create_node(nd, ok) ==
    IF ok /\ (\E n \in NodeIds : ~nd[n].alive)
    THEN CHOOSE n \in NodeIds : ~nd[n].alive /\ \A m \in NodeIds : ~nd[m].alive => n <= m
    ELSE NULL

create_store(nd, fn, lflag) ==
    IF fn = NULL THEN nd
    ELSE [nd EXCEPT ![fn] = [alive |-> TRUE, isdir |-> (L_DIRECTORY \in lflag),
                             kids |-> {}, lnkcnt |-> 0, size |-> 0]]

\* link(): a name already present in the directory is rejected.
link_rc(nd, par, child, name, orc) ==
    IF match(nd, par, name) # NULL THEN EEXIST
    ELSE IF orc = "link" THEN ENOMEM
    ELSE EOK

link_store(nd, par, child, name, rc) ==
    IF rc # EOK THEN nd
    ELSE [nd EXCEPT ![par].kids = @ \cup {<<name, child>>},
                    ![child].lnkcnt = @ + 1]

\* unlink(): needs the parent, refuses a non-empty child.
unlink_rc(nd, par, child, orc) ==
    IF par = NULL THEN EBUSY
    ELSE IF ~(\E e \in nd[par].kids : e[2] = child) THEN ENOENT
    ELSE IF nd[child].kids # {} THEN ENOTEMPTY
    ELSE IF orc = "unlink" THEN EBUSY
    ELSE EOK

unlink_store(nd, par, child, rc) ==
    IF rc # EOK THEN nd
    ELSE LET e == CHOOSE x \in nd[par].kids : x[2] = child
         IN  [nd EXCEPT ![par].kids = @ \ {e},
                        ![child].lnkcnt = @ - 1]

destroy_store(nd, n) == [nd EXCEPT ![n] = FreeNode]

plb_get_char(buf, offset) == buf[offset % PLB_SIZE]

\* A backend whose has_children() and is_directory() are independent of each
\* other: /a/b is not a directory and yet has a child, b; that child is the
\* plain file also linked as /aa.
HybridNodes ==
    [n \in NodeIds |->
        CASE n = 0 -> [alive |-> TRUE, isdir |-> TRUE,
                       kids |-> {<< <<"a">>, 1 >>, << <<"b">>, 2 >>,
                                 << <<"a", "a">>, 4 >>},
                       lnkcnt |-> 0, size |-> 0]
          [] n = 1 -> [alive |-> TRUE, isdir |-> TRUE,
                       kids |-> {<< <<"b">>, 3 >>}, lnkcnt |-> 1, size |-> 0]
          [] n = 2 -> [alive |-> TRUE, isdir |-> TRUE, kids |-> {},
                       lnkcnt |-> 1, size |-> 0]
          [] n = 3 -> [alive |-> TRUE, isdir |-> FALSE,
                       kids |-> {<< <<"b">>, 4 >>}, lnkcnt |-> 1, size |-> 5]
          [] n = 4 -> [alive |-> TRUE, isdir |-> FALSE, kids |-> {},
                       lnkcnt |-> 2, size |-> 0]
          [] OTHER -> FreeNode]


(***************************************************************************)
(* Bookkeeping shared by the actions.                                      *)
(***************************************************************************)
IdleFrame ==
    [pc |-> "idle", next |-> 0, last |-> 0, dev_handle |-> 0,
     lflag |-> {}, index |-> 0, component |-> <<>>,
     par |-> NULL, cur |-> NULL, tmp |-> NULL, fn |-> NULL,
     rc |-> EOK, old_lnkcnt |-> 0,
     reads |-> 0]

NoRequest == [path |-> <<>>, off |-> 0, dev |-> 0, lflag |-> {}, index |-> 0,
              orc |-> "none"]

NoHist == [path |-> <<>>, node |-> NULL]

NoTwin == [set |-> FALSE, answers |-> <<>>, trace |-> <<>>, nodes |-> InitNodes]

NoneHeld == [n \in NodeIds |-> 0]

\* One entry of the trace: a call of the operations table ...
Call(op, par, node, name, rc) ==
    [op |-> op, par |-> par, node |-> node, name |-> name, rc |-> rc, args |-> <<>>]

\* ... or an answer to the request.
ipc_answer_0(retval) ==
    [op |-> "ipc_answer", par |-> NULL, node |-> NULL, name |-> <<>>,
     rc |-> retval, args |-> <<>>]

ipc_answer_5(retval, a1, a2, a3, a4, a5) ==
    [op |-> "ipc_answer", par |-> NULL, node |-> NULL, name |-> <<>>,
     rc |-> retval, args |-> <<a1, a2, a3, a4, a5>>]

Put(n) == Call("node_put", NULL, n, <<>>, EOK)

IsAnswer(e) == e.op = "ipc_answer"

\* What the coordinator receives: status and arguments of each answer.
Reply(retval, args) == [retval |-> retval, args |-> args]

Replies(ev) ==
    LET a == SelectSeq(ev, IsAnswer)
    IN  [i \in 1 .. Len(a) |-> Reply(a[i].rc, a[i].args)]

\* Taking and dropping one reference to node n.
Acquire(h, n) == IF n = NULL THEN h ELSE [h EXCEPT ![n] = @ + 1]

node_put(h, n) == [h EXCEPT ![n] = @ - 1]

\* One step of fibril p: new frame, new node table, the calls and answers it
\* made in their order, and the references it holds afterwards.
Commit(p, f, nd, ev, h) ==
    /\ lk' = [lk EXCEPT ![p] = f]
    /\ nodes' = nd
    /\ answers' = [answers EXCEPT ![p] = @ \o Replies(ev)]
    /\ trace' = [trace EXCEPT ![p] = @ \o ev]
    /\ held' = [held EXCEPT ![p] = h]
    /\ UNCHANGED <<plb, req, pre, served, hist, twin, reg, ui>>

(***************************************************************************)
(* The coordinator: writes a path into the PLB and sends VFS_LOOKUP.       *)
(***************************************************************************)
\* What the backend does with the request: it serves every call, or it fails
\* the request's create(), link() or unlink().  One lookup calls create() and
\* link() only after a miss and unlink() only after a hit, and link() only
\* after create() succeeded, so one failing call per request covers all the
\* outcomes.  Outcomes that the request's flags can never consult are left out.
OrcsFor(lflag) ==
    {"none"}
    \cup (IF L_CREATE \in lflag THEN {"create"} ELSE {})
    \cup (IF lflag \cap {L_CREATE, L_LINK} # {} THEN {"link"} ELSE {})
    \cup (IF L_UNLINK \in lflag THEN {"unlink"} ELSE {})

\* The link target index is read only for L_LINK without L_CREATE.
IndicesFor(lflag) ==
    IF L_LINK \in lflag /\ L_CREATE \notin lflag THEN Indices ELSE {0}

plb_write(path, off) ==
    [i \in 0 .. (PLB_SIZE - 1) |->
        IF ((i - off) % PLB_SIZE) < Len(path)
        THEN path[((i - off) % PLB_SIZE) + 1]
        ELSE Pad]

\* The request reaches fibril p, which enters libfs_lookup.
Accept(p, path, off, lflag, index, orc) ==
    /\ lk' = [lk EXCEPT ![p] =
                [IdleFrame EXCEPT !.pc = "start",
                                  !.next = off,
                                  !.last = (off + Len(path) - 1) % PLB_SIZE,
                                  !.dev_handle = DevHandle,
                                  !.lflag = lflag,
                                  !.index = index]]
    /\ answers' = [answers EXCEPT ![p] = <<>>]
    /\ trace' = [trace EXCEPT ![p] = <<>>]
    /\ held' = [held EXCEPT ![p] = NoneHeld]
    /\ req' = [req EXCEPT ![p] =
                [path |-> path, off |-> off, dev |-> DevHandle, lflag |-> lflag,
                 index |-> index, orc |-> orc]]

Issue(p, path, off, lflag, index, orc) ==
    /\ plb' = plb_write(path, off)
    /\ Accept(p, path, off, lflag, index, orc)

\* Any request.
vfs_lookup(p) ==
    /\ lk[p].pc = "idle"
    /\ served < MaxLookups
    /\ \E path \in Paths, off \in Offsets, lflag \in SUBSET LFlags :
         \E index \in IndicesFor(lflag), orc \in OrcsFor(lflag) :
            Issue(p, path, off, lflag, index, orc)
    /\ pre' = [pre EXCEPT ![p] = nodes]
    /\ served' = served + 1
    /\ UNCHANGED <<nodes, hist, twin, reg, ui>>

\* A request to create the path (neither L_LINK nor L_PARENT).
CreateFlags == {F \in SUBSET LFlags : L_CREATE \in F /\ F \cap {L_LINK, L_PARENT} = {}}

vfs_lookup_create(p) ==
    /\ lk[p].pc = "idle"
    /\ served < MaxSeq
    /\ \E path \in Paths, off \in Offsets, lflag \in CreateFlags :
         \E orc \in OrcsFor(lflag) :
            Issue(p, path, off, lflag, 0, orc)
    /\ pre' = [pre EXCEPT ![p] = nodes]
    /\ served' = served + 1
    /\ UNCHANGED <<nodes, hist, twin, reg, ui>>

\* A request whose path wraps around the end of the PLB.
vfs_lookup_wrapped(p) ==
    /\ lk[p].pc = "idle"
    /\ served < MaxLookups
    /\ \E path \in Paths, off \in WrapOffsets, lflag \in SUBSET LFlags :
         \E index \in IndicesFor(lflag), orc \in OrcsFor(lflag) :
            /\ off + Len(path) > PLB_SIZE
            /\ Issue(p, path, off, lflag, index, orc)
    /\ pre' = [pre EXCEPT ![p] = nodes]
    /\ served' = served + 1
    /\ UNCHANGED <<nodes, hist, twin, reg, ui>>

\* The request just served is issued once more against the backend as it was,
\* its path now stored contiguously at the start of the PLB; the outcome of
\* the wrapped run is kept for comparison.
vfs_lookup_contiguous(p) ==
    /\ lk[p].pc = "done"
    /\ ~twin.set
    /\ req[p].off + Len(req[p].path) > PLB_SIZE
    /\ twin' = [set |-> TRUE, answers |-> answers[p], trace |-> trace[p],
                nodes |-> nodes]
    /\ nodes' = pre[p]
    /\ Issue(p, req[p].path, 0, req[p].lflag, req[p].index, req[p].orc)
    /\ UNCHANGED <<pre, served, hist, reg, ui>>

\* Requests in flight together: each path has its own range of the PLB, fibril
\* p's request the p-th half of the buffer.
plb_append(buf, path, off) ==
    [i \in 0 .. (PLB_SIZE - 1) |->
        IF ((i - off) % PLB_SIZE) < Len(path)
        THEN path[((i - off) % PLB_SIZE) + 1]
        ELSE buf[i]]

PlbRange(p) == (p - 1) * (PLB_SIZE \div Cardinality(Procs))

ConcPaths ==
    { <<"/", "a">>,
      <<"/", "a", "/", "b">>,
      <<"/", "a", "/", "a">>,
      <<"/", "b", "/", "a">> }

ConcFlags == {{}, {L_CREATE, L_EXCLUSIVE}, {L_UNLINK}, {L_LINK}, {L_PARENT}}

\* A request sent while the other fibril may be serving one.
vfs_lookup_concurrent(p) ==
    /\ lk[p].pc = "idle"
    /\ served < Cardinality(Procs)
    /\ \E path \in ConcPaths, lflag \in ConcFlags :
         \E index \in IndicesFor(lflag) :
            /\ plb' = plb_append(plb, path, PlbRange(p))
            /\ Accept(p, path, PlbRange(p), lflag, index, "none")
    /\ pre' = [pre EXCEPT ![p] = nodes]
    /\ served' = served + 1
    /\ UNCHANGED <<nodes, hist, twin, reg, ui>>

\* A request that may add a link: L_CREATE or L_LINK among its flags.
LinkFlags == {F \in SUBSET LFlags : F \cap {L_CREATE, L_LINK} # {}}

vfs_lookup_link(p) ==
    /\ lk[p].pc = "idle"
    /\ served < MaxLookups
    /\ \E path \in Paths, lflag \in LinkFlags :
         \E index \in IndicesFor(lflag), orc \in OrcsFor(lflag) :
            Issue(p, path, 0, lflag, index, orc)
    /\ pre' = [pre EXCEPT ![p] = nodes]
    /\ served' = served + 1
    /\ UNCHANGED <<nodes, hist, twin, reg, ui>>

\* Two directories of the root: /b, which starts empty, and /a, which does not.
EmptyDir == <<"/", "b", "/">>

FullDir == <<"/", "a", "/">>

Below(path, dir) == Len(path) > Len(dir) /\ SubSeq(path, 1, Len(dir)) = dir

\* The request just served, of a path below /b, is issued once more against
\* the backend as it was, with the same remaining path text below /a; the
\* outcome of the first run is kept for comparison.
vfs_lookup_sibling(p) ==
    /\ lk[p].pc = "done"
    /\ ~twin.set
    /\ Below(req[p].path, EmptyDir)
    /\ twin' = [set |-> TRUE, answers |-> answers[p], trace |-> trace[p],
                nodes |-> nodes]
    /\ nodes' = pre[p]
    /\ Issue(p,
             FullDir \o SubSeq(req[p].path, Len(EmptyDir) + 1, Len(req[p].path)),
             0, req[p].lflag, req[p].index, req[p].orc)
    /\ UNCHANGED <<pre, served, hist, reg, ui>>

(***************************************************************************)
(* libfs_lookup()                                                          *)
(***************************************************************************)
\* As wrap_last, without the adjustment of a wrapped range.
wrap_last_never(next, last) == last

wrap_last(next, last) == IF last < next THEN last + PLB_SIZE ELSE last

eat_slash(buf, next) == IF plb_get_char(buf, next) = "/" THEN next + 1 ELSE next

\* As name_overflow, one character late.
name_overflow_late(len) == len = NAME_MAX

name_overflow(len) == len + 1 = NAME_MAX

\* The inner loop of the walk: the characters up to the next slash.  reads
\* counts the calls of plb_get_char: one in the loop test unless the range is
\* used up, one more to store the character.
RECURSIVE collect_component(_, _, _, _)
collect_component(buf, next, last, component) ==
    IF next <= last /\ plb_get_char(buf, next) # "/"
    THEN IF name_overflow(Len(component))
         THEN [rc |-> ENAMETOOLONG, component |-> component, next |-> next,
               reads |-> 1]
         ELSE LET c == collect_component(buf, next + 1, last,
                                         Append(component, plb_get_char(buf, next)))
              IN  [c EXCEPT !.reads = @ + 2]
    ELSE [rc |-> EOK, component |-> component, next |-> next,
          reads |-> IF next <= last THEN 1 ELSE 0]

\* As collect_next_component, without the test for a further component.
RECURSIVE collect_next_component_any(_, _, _, _)
collect_next_component_any(buf, next, last, component) ==
    IF next <= last
    THEN IF name_overflow(Len(component))
         THEN [rc |-> ENAMETOOLONG, component |-> component, next |-> next,
               reads |-> 0]
         ELSE LET c == collect_next_component_any(buf, next + 1, last,
                                                  Append(component, plb_get_char(buf, next)))
              IN  [c EXCEPT !.reads = @ + 1]
    ELSE [rc |-> EOK, component |-> component, next |-> next, reads |-> 0]

\* The loop of the excessive-components branch: one more component, no slash.
RECURSIVE collect_next_component(_, _, _, _)
collect_next_component(buf, next, last, component) ==
    IF next <= last
    THEN IF plb_get_char(buf, next) = "/"
         THEN [rc |-> ENOENT, component |-> component, next |-> next,
               reads |-> 1]
         ELSE IF name_overflow(Len(component))
         THEN [rc |-> ENAMETOOLONG, component |-> component, next |-> next,
               reads |-> 1]
         ELSE LET c == collect_next_component(buf, next + 1, last,
                                              Append(component, plb_get_char(buf, next)))
              IN  [c EXCEPT !.reads = @ + 2]
    ELSE [rc |-> EOK, component |-> component, next |-> next, reads |-> 0]

\* As answer_node, with the size and the link count in each other's place.
answer_node_swapped(nd, f, n) ==
    ipc_answer_5(EOK, FsHandle, f.dev_handle,
                 index_get(nd, n), lnkcnt_get(nd, n), size_get(nd, n))

\* ipc_answer_5(rid, EOK, fs_handle, dev_handle, index, size, lnkcnt) of node n.
answer_node(nd, f, n) ==
    ipc_answer_5(EOK, FsHandle, f.dev_handle,
                 index_get(nd, n), size_get(nd, n), lnkcnt_get(nd, n))

lookup_start(p) ==
    LET f == lk[p]
        root == root_get(f.dev_handle)
    IN  /\ f.pc = "start"
        /\ Commit(p,
                  [f EXCEPT !.pc = "loop",
                            !.last = wrap_last(f.next, f.last),
                            !.par = NULL, !.cur = root, !.tmp = NULL,
                            !.next = eat_slash(plb, f.next),
                            !.reads = @ + 1],
                  nodes,
                  <<Call("root_get", NULL, root, <<>>, EOK)>>,
                  Acquire(held[p], root))

\* As skip_slash, with the cursor left on the separator.
skip_slash_stay(next) == next

\* next++ after a component: eat slash.
skip_slash(next) == next + 1

\* The loop test and the collection of one component.
lookup_loop(p) ==
    LET f == lk[p]
        c == collect_component(plb, f.next, f.last, <<>>)
    IN  /\ f.pc = "loop"
        /\ IF f.next <= f.last /\ has_children(nodes, f.cur)
           THEN IF c.rc # EOK
                THEN Commit(p, [f EXCEPT !.pc = "out", !.next = c.next,
                                         !.reads = @ + c.reads],
                            nodes, <<ipc_answer_0(c.rc)>>, held[p])
                ELSE Commit(p, [f EXCEPT !.pc = "match",
                                         !.component = c.component,
                                         !.next = skip_slash(c.next),
                                         !.reads = @ + c.reads],
                            nodes, <<>>, held[p])
           ELSE Commit(p, [f EXCEPT !.pc = "excess"], nodes, <<>>, held[p])

\* As miss_answers, with the test of L_PARENT inverted.
miss_answers_inverted(nd, f) ==
    IF L_PARENT \notin f.lflag
    THEN <<answer_node(nd, f, f.cur), ipc_answer_0(ENOENT)>>
    ELSE <<ipc_answer_0(ENOENT)>>

\* The answers on a miss in the last component without L_CREATE and L_LINK.
miss_answers(nd, f) ==
    IF L_PARENT \in f.lflag
    THEN <<answer_node(nd, f, f.cur), ipc_answer_0(ENOENT)>>
    ELSE <<ipc_answer_0(ENOENT)>>

\* As wants_link, with every miss taken for a request to link.
wants_link_always(lflag) == TRUE

\* lflag & (L_CREATE | L_LINK): the request is to create a new link.
wants_link(lflag) == lflag \cap {L_CREATE, L_LINK} # {}

\* As unprocessed, with every missed component taken for the last one.
unprocessed_never(f) == FALSE

\* After a miss: there are unprocessed components.
unprocessed(f) == f.next <= f.last

\* match() and what follows it up to the next mutating call.
lookup_match(p) ==
    LET f == lk[p]
        t == match(nodes, f.cur, f.component)
        m == Call("match", f.cur, t, f.component, EOK)
    IN  /\ f.pc = "match"
        /\ IF t = NULL
           THEN IF unprocessed(f)
                THEN Commit(p, [f EXCEPT !.pc = "out", !.tmp = t], nodes,
                            <<m, ipc_answer_0(ENOENT)>>, held[p])
                ELSE IF wants_link(f.lflag)
                THEN Commit(p, [f EXCEPT !.pc = "miss_create", !.tmp = t], nodes,
                            <<m>>, held[p])
                ELSE Commit(p, [f EXCEPT !.pc = "out", !.tmp = t], nodes,
                            <<m>> \o miss_answers(nodes, f), held[p])
           ELSE Commit(p,
                       [f EXCEPT !.pc = "loop", !.par = f.cur, !.cur = t,
                                 !.tmp = NULL],
                       nodes,
                       IF f.par # NULL THEN <<m, Put(f.par)>> ELSE <<m>>,
                       IF f.par # NULL
                       THEN node_put(Acquire(held[p], t), f.par)
                       ELSE Acquire(held[p], t))

\* L_CREATE takes precedence over L_LINK when the node to link is obtained.
obtain_node(nd, f, orc) ==
    IF L_CREATE \in f.lflag
    THEN create_node(nd, orc # "create")
    ELSE node_get(nd, f.dev_handle, f.index)

obtain_call(f, fn) ==
    IF L_CREATE \in f.lflag
    THEN Call("create", NULL, fn, <<>>, EOK)
    ELSE Call("node_get", NULL, fn, <<>>, EOK)

obtain_store(nd, f, fn) ==
    IF L_CREATE \in f.lflag THEN create_store(nd, fn, f.lflag) ELSE nd

\* As no_node_answers, with the status of a failed allocation.
no_node_answers_nomem == <<ipc_answer_0(ENOMEM)>>

\* No node to link (create or node_get returned NULL): ipc_answer_0(rid, ENOSPC).
no_node_answers == <<ipc_answer_0(ENOSPC)>>

\* As link_fail_destroys, with the flag of the other way to obtain a node.
link_fail_destroys_linked(lflag) == L_LINK \in lflag

\* As link_fail_destroys, with the rollback forgotten.
link_fail_destroys_never(lflag) == FALSE

\* A node that failed to link is destroyed when it was freshly created.
link_fail_destroys(lflag) == L_CREATE \in lflag

\* As not_a_directory, with every node accepted as the place of a new link.
not_a_directory_never(nd, cur) == FALSE

\* A new link is refused under a node that is not a directory.
not_a_directory(nd, cur) == ~is_directory(nd, cur)

\* Miss in the last component with L_CREATE or L_LINK: get the node to link.
lookup_miss_create(p) ==
    LET f == lk[p]
        fn == obtain_node(nodes, f, req[p].orc)
    IN  /\ f.pc = "miss_create"
        /\ IF not_a_directory(nodes, f.cur)
           THEN Commit(p, [f EXCEPT !.pc = "out"], nodes,
                       <<ipc_answer_0(ENOTDIR)>>, held[p])
           ELSE IF fn = NULL
           THEN Commit(p, [f EXCEPT !.pc = "out", !.fn = fn], nodes,
                       <<obtain_call(f, fn)>> \o no_node_answers, held[p])
           ELSE Commit(p, [f EXCEPT !.pc = "miss_link", !.fn = fn],
                       obtain_store(nodes, f, fn),
                       <<obtain_call(f, fn)>>, Acquire(held[p], fn))

lookup_miss_link(p) ==
    LET f == lk[p]
        rc == link_rc(nodes, f.cur, f.fn, f.component, req[p].orc)
        nd == link_store(nodes, f.cur, f.fn, f.component, rc)
        l == Call("link", f.cur, f.fn, f.component, rc)
    IN  /\ f.pc = "miss_link"
        /\ IF rc # EOK
           THEN IF link_fail_destroys(f.lflag)
                THEN Commit(p, [f EXCEPT !.pc = "miss_destroy", !.rc = rc], nd,
                            <<l>>, held[p])
                ELSE Commit(p, [f EXCEPT !.pc = "out", !.rc = rc], nd,
                            <<l, ipc_answer_0(rc)>>, held[p])
           ELSE Commit(p, [f EXCEPT !.pc = "out", !.rc = rc], nd,
                       <<l, answer_node(nd, f, f.fn), Put(f.fn)>>,
                       node_put(held[p], f.fn))

lookup_miss_destroy(p) ==
    LET f == lk[p]
    IN  /\ f.pc = "miss_destroy"
        /\ Commit(p, [f EXCEPT !.pc = "out"], destroy_store(nodes, f.fn),
                  <<Call("destroy", NULL, f.fn, <<>>, EOK), ipc_answer_0(f.rc)>>,
                  node_put(held[p], f.fn))

\* Handle miss: excessive components.
lookup_excess(p) ==
    LET f == lk[p]
        c == collect_next_component(plb, f.next, f.last, <<>>)
    IN  /\ f.pc = "excess"
        /\ IF f.next <= f.last /\ ~has_children(nodes, f.cur)
           THEN IF wants_link(f.lflag)
                THEN IF not_a_directory(nodes, f.cur)
                     THEN Commit(p, [f EXCEPT !.pc = "out"], nodes,
                                 <<ipc_answer_0(ENOTDIR)>>, held[p])
                     ELSE IF c.rc # EOK
                     THEN Commit(p, [f EXCEPT !.pc = "out", !.next = c.next,
                                              !.reads = @ + c.reads],
                                 nodes, <<ipc_answer_0(c.rc)>>, held[p])
                     ELSE Commit(p, [f EXCEPT !.pc = "exc_create",
                                              !.component = c.component,
                                              !.next = c.next,
                                              !.reads = @ + c.reads],
                                 nodes, <<>>, held[p])
                ELSE Commit(p, [f EXCEPT !.pc = "out"], nodes,
                            <<ipc_answer_0(ENOENT)>>, held[p])
           ELSE Commit(p, [f EXCEPT !.pc = "hit"], nodes, <<>>, held[p])

lookup_exc_create(p) ==
    LET f == lk[p]
        fn == obtain_node(nodes, f, req[p].orc)
    IN  /\ f.pc = "exc_create"
        /\ IF fn = NULL
           THEN Commit(p, [f EXCEPT !.pc = "out", !.fn = fn], nodes,
                       <<obtain_call(f, fn)>> \o no_node_answers, held[p])
           ELSE Commit(p, [f EXCEPT !.pc = "exc_link", !.fn = fn],
                       obtain_store(nodes, f, fn),
                       <<obtain_call(f, fn)>>, Acquire(held[p], fn))

lookup_exc_link(p) ==
    LET f == lk[p]
        rc == link_rc(nodes, f.cur, f.fn, f.component, req[p].orc)
        nd == link_store(nodes, f.cur, f.fn, f.component, rc)
        l == Call("link", f.cur, f.fn, f.component, rc)
    IN  /\ f.pc = "exc_link"
        /\ IF rc # EOK
           THEN IF link_fail_destroys(f.lflag)
                THEN Commit(p, [f EXCEPT !.pc = "exc_destroy", !.rc = rc], nd,
                            <<l>>, held[p])
                ELSE Commit(p, [f EXCEPT !.pc = "out", !.rc = rc], nd,
                            <<l, ipc_answer_0(rc)>>, held[p])
           ELSE Commit(p, [f EXCEPT !.pc = "out", !.rc = rc], nd,
                       <<l, answer_node(nd, f, f.fn), Put(f.fn)>>,
                       node_put(held[p], f.fn))

lookup_exc_destroy(p) ==
    LET f == lk[p]
    IN  /\ f.pc = "exc_destroy"
        /\ Commit(p, [f EXCEPT !.pc = "out"], destroy_store(nodes, f.fn),
                  <<Call("destroy", NULL, f.fn, <<>>, EOK), ipc_answer_0(f.rc)>>,
                  node_put(held[p], f.fn))

\* As hit_answer, without the test of L_LINK.
hit_answer_exclusive_only(nd, f, cur) ==
    IF {L_CREATE, L_EXCLUSIVE} \subseteq f.lflag
    THEN ipc_answer_0(EEXIST)
    ELSE IF (L_FILE \in f.lflag) /\ is_directory(nd, cur)
    THEN ipc_answer_0(EISDIR)
    ELSE IF (L_DIRECTORY \in f.lflag) /\ is_file(nd, cur)
    THEN ipc_answer_0(ENOTDIR)
    ELSE answer_node(nd, f, cur)

\* As hit_answer, without the test of L_CREATE | L_EXCLUSIVE.
hit_answer_link_only(nd, f, cur) ==
    IF L_LINK \in f.lflag
    THEN ipc_answer_0(EEXIST)
    ELSE IF (L_FILE \in f.lflag) /\ is_directory(nd, cur)
    THEN ipc_answer_0(EISDIR)
    ELSE IF (L_DIRECTORY \in f.lflag) /\ is_file(nd, cur)
    THEN ipc_answer_0(ENOTDIR)
    ELSE answer_node(nd, f, cur)

\* As hit_answer, with is_directory and is_file in each other's place.
hit_answer_types_swapped(nd, f, cur) ==
    IF ({L_CREATE, L_EXCLUSIVE} \subseteq f.lflag) \/ (L_LINK \in f.lflag)
    THEN ipc_answer_0(EEXIST)
    ELSE IF (L_FILE \in f.lflag) /\ is_file(nd, cur)
    THEN ipc_answer_0(EISDIR)
    ELSE IF (L_DIRECTORY \in f.lflag) /\ is_directory(nd, cur)
    THEN ipc_answer_0(ENOTDIR)
    ELSE answer_node(nd, f, cur)

\* As hit_answer, with the type tests ahead of the test for EEXIST.
hit_answer_types_first(nd, f, cur) ==
    IF (L_FILE \in f.lflag) /\ is_directory(nd, cur)
    THEN ipc_answer_0(EISDIR)
    ELSE IF (L_DIRECTORY \in f.lflag) /\ is_file(nd, cur)
    THEN ipc_answer_0(ENOTDIR)
    ELSE IF ({L_CREATE, L_EXCLUSIVE} \subseteq f.lflag) \/ (L_LINK \in f.lflag)
    THEN ipc_answer_0(EEXIST)
    ELSE answer_node(nd, f, cur)

\* The checks on a hit that follow the L_PARENT and L_UNLINK handling.
hit_answer(nd, f, cur) ==
    IF ({L_CREATE, L_EXCLUSIVE} \subseteq f.lflag) \/ (L_LINK \in f.lflag)
    THEN ipc_answer_0(EEXIST)
    ELSE IF (L_FILE \in f.lflag) /\ is_directory(nd, cur)
    THEN ipc_answer_0(EISDIR)
    ELSE IF (L_DIRECTORY \in f.lflag) /\ is_file(nd, cur)
    THEN ipc_answer_0(ENOTDIR)
    ELSE answer_node(nd, f, cur)

\* As parent_cur, with cur left as it is.
parent_cur_kept(f) == f.cur

\* With L_PARENT the node answered for is the parent: cur = par.
parent_cur(f) == IF L_PARENT \in f.lflag THEN f.par ELSE f.cur

\* As parent_par, with par left as it is.
parent_par_kept(f) == f.par

\* With L_PARENT the reference moves from par to cur: par = NULL.
parent_par(f) == IF L_PARENT \in f.lflag THEN NULL ELSE f.par

\* Handle hit: L_PARENT substitution, then dispatch on the remaining flags.
lookup_hit(p) ==
    LET f == lk[p]
        parent == L_PARENT \in f.lflag
        cur == parent_cur(f)
        par == parent_par(f)
        g == [f EXCEPT !.cur = cur, !.par = par]
        puts == IF parent THEN <<Put(f.cur)>> ELSE <<>>
        h == IF parent THEN node_put(held[p], f.cur) ELSE held[p]
    IN  /\ f.pc = "hit"
        /\ IF cur = NULL
           THEN Commit(p, [g EXCEPT !.pc = "out"], nodes,
                       puts \o <<ipc_answer_0(ENOENT)>>, h)
           ELSE IF L_UNLINK \in f.lflag
           THEN Commit(p, [g EXCEPT !.pc = "hit_lnkcnt"], nodes, puts, h)
           ELSE Commit(p, [g EXCEPT !.pc = "out"], nodes,
                       puts \o <<hit_answer(nodes, f, cur)>>, h)

lookup_hit_lnkcnt(p) ==
    LET f == lk[p]
    IN  /\ f.pc = "hit_lnkcnt"
        /\ Commit(p, [f EXCEPT !.pc = "hit_unlink",
                               !.old_lnkcnt = lnkcnt_get(nodes, f.cur)],
                  nodes,
                  <<Call("lnkcnt_get", NULL, f.cur, <<>>, EOK)>>, held[p])

\* As unlink_answer, with the link count read after unlink.
unlink_answer_after(nd, f, res) ==
    ipc_answer_5(res, FsHandle, f.dev_handle,
                 index_get(nd, f.cur), size_get(nd, f.cur), lnkcnt_get(nd, f.cur))

\* As unlink_answer, with a failed unlink answered as the other errors are.
unlink_answer_bare(nd, f, res) ==
    IF res = EOK
    THEN ipc_answer_5(res, FsHandle, f.dev_handle,
                      index_get(nd, f.cur), size_get(nd, f.cur), f.old_lnkcnt)
    ELSE ipc_answer_0(res)

\* The answer of the L_UNLINK branch.
unlink_answer(nd, f, res) ==
    ipc_answer_5(res, FsHandle, f.dev_handle,
                 index_get(nd, f.cur), size_get(nd, f.cur), f.old_lnkcnt)

lookup_hit_unlink(p) ==
    LET f == lk[p]
        res == unlink_rc(nodes, f.par, f.cur, req[p].orc)
        nd == unlink_store(nodes, f.par, f.cur, res)
    IN  /\ f.pc = "hit_unlink"
        /\ Commit(p, [f EXCEPT !.pc = "out", !.rc = res], nd,
                  <<Call("unlink", f.par, f.cur, <<>>, res),
                    unlink_answer(nd, f, res)>>,
                  held[p])

\* As out_puts, with the node obtained by create or node_get put as well.
out_puts_with_fn(f) ==
    (IF f.par # NULL THEN <<f.par>> ELSE <<>>)
    \o (IF f.cur # NULL THEN <<f.cur>> ELSE <<>>)
    \o (IF f.tmp # NULL THEN <<f.tmp>> ELSE <<>>)
    \o (IF f.fn # NULL THEN <<f.fn>> ELSE <<>>)

\* out: the references still held in par, cur and tmp are put.
out_puts(f) ==
    (IF f.par # NULL THEN <<f.par>> ELSE <<>>)
    \o (IF f.cur # NULL THEN <<f.cur>> ELSE <<>>)
    \o (IF f.tmp # NULL THEN <<f.tmp>> ELSE <<>>)

RECURSIVE put_all(_, _)
put_all(h, ns) ==
    IF ns = <<>> THEN h ELSE put_all(node_put(h, Head(ns)), Tail(ns))

lookup_out(p) ==
    LET f == lk[p]
        ns == out_puts(f)
    IN  /\ f.pc = "out"
        /\ Commit(p, [f EXCEPT !.pc = "done"], nodes,
                  [i \in 1 .. Len(ns) |-> Put(ns[i])],
                  put_all(held[p], ns))

\* libfs_lookup() returns to the connection fibril, which waits for a call.
lookup_return(p) ==
    /\ lk[p].pc = "done"
    /\ lk' = [lk EXCEPT ![p] = IdleFrame]
    /\ answers' = [answers EXCEPT ![p] = <<>>]
    /\ trace' = [trace EXCEPT ![p] = <<>>]
    /\ held' = [held EXCEPT ![p] = NoneHeld]
    /\ req' = [req EXCEPT ![p] = NoRequest]
    /\ pre' = [pre EXCEPT ![p] = InitNodes]
    /\ hist' = IF /\ L_CREATE \in req[p].lflag
                  /\ \E i \in 1 .. Len(trace[p]) :
                        trace[p][i].op = "link" /\ trace[p][i].rc = EOK
               THEN [path |-> req[p].path, node |-> lk[p].fn]
               ELSE NoHist
    /\ twin' = NoTwin
    /\ UNCHANGED <<plb, nodes, served, reg, ui>>

lookup_step(p) ==
    \/ lookup_start(p)
    \/ lookup_loop(p)
    \/ lookup_match(p)
    \/ lookup_miss_create(p)
    \/ lookup_miss_link(p)
    \/ lookup_miss_destroy(p)
    \/ lookup_excess(p)
    \/ lookup_exc_create(p)
    \/ lookup_exc_link(p)
    \/ lookup_exc_destroy(p)
    \/ lookup_hit(p)
    \/ lookup_hit_lnkcnt(p)
    \/ lookup_hit_unlink(p)
    \/ lookup_out(p)
    \/ lookup_return(p)

(***************************************************************************)
(* fs_register(): the registration handshake with VFS.                     *)
(***************************************************************************)
EINVAL == "EINVAL"
ELIMIT == "ELIMIT"
EPERM == "EPERM"
ENOTSUP == "ENOTSUP"

PlbPage == 4096         \* the page as_get_mappable_page() hands out
PhoneHash == 99         \* the hash ipc_connect_to_me() stores for the callback

\* As fs_register_steps, with the connection fibril created before the answer
\* to VFS_REGISTER is picked up.
fs_register_steps_early_connection ==
    <<"async_send_0", "ipc_data_write_start", "ipc_connect_to_me",
      "as_get_mappable_page", "ipc_share_in_start_0_0", "async_new_connection",
      "async_wait_for", "async_set_client_connection", "return">>

\* The statements of fs_register() in program order.
fs_register_steps ==
    <<"async_send_0", "ipc_data_write_start", "ipc_connect_to_me",
      "as_get_mappable_page", "ipc_share_in_start_0_0", "async_wait_for",
      "async_new_connection", "async_set_client_connection", "return">>

NoAnswer == [set |-> FALSE, retval |-> EOK, arg1 |-> 0]

\* Before fs_register() is called: nothing sent, fs_reg_t not filled in.
Unregistered ==
    [pc |-> 1, steps |-> <<>>, failing |-> FALSE, failed |-> <<>>,
     pending |-> FALSE, awaited |-> 0, rc |-> EOK,
     vfs_phonehash |-> NULL, plb_ro |-> NULL, mapped |-> FALSE,
     fs_handle |-> NULL, conn |-> FALSE, client_conn |-> FALSE,
     returned |-> FALSE, retval |-> EOK, answer |-> NoAnswer]

\* After fs_register() returned EOK.
Registered ==
    [pc |-> Len(fs_register_steps) + 1, steps |-> fs_register_steps,
     failing |-> FALSE, failed |-> <<>>,
     pending |-> FALSE, awaited |-> 1, rc |-> EOK,
     vfs_phonehash |-> PhoneHash, plb_ro |-> PlbPage, mapped |-> TRUE,
     fs_handle |-> FsHandle, conn |-> TRUE, client_conn |-> TRUE,
     returned |-> TRUE, retval |-> EOK,
     answer |-> [set |-> TRUE, retval |-> EOK, arg1 |-> FsHandle]]

\* fs_register() is about to execute the named statement.
At(name) ==
    /\ ~reg.returned
    /\ ~reg.failing
    /\ reg.pc \in 1 .. Len(fs_register_steps)
    /\ fs_register_steps[reg.pc] = name

Step(r, name) == [r EXCEPT !.pc = @ + 1, !.steps = Append(@, name)]

\* The named statement failed with rc: the error path of that statement.
Fail(r, name, rc) ==
    [r EXCEPT !.steps = Append(@, name), !.failing = TRUE, !.rc = rc,
              !.failed = Append(@, <<name, rc>>)]

OnlyReg == UNCHANGED <<plb, nodes, lk, answers, trace, held, req, pre, served,
                       hist, twin, ui>>

\* aid_t req = async_send_0(vfs_phone, VFS_REGISTER, &answer);
register_send ==
    /\ At("async_send_0")
    /\ reg' = Step([reg EXCEPT !.pending = TRUE], "async_send_0")
    /\ OnlyReg

\* rc = ipc_data_write_start(...); if (rc != EOK) { wait; return rc; }
register_data_write ==
    /\ At("ipc_data_write_start")
    /\ \E rc \in {EOK, EINVAL} :
         reg' = IF rc # EOK
                THEN Fail(reg, "ipc_data_write_start", rc)
                ELSE Step([reg EXCEPT !.rc = rc], "ipc_data_write_start")
    /\ OnlyReg

\* ipc_connect_to_me(vfs_phone, 0, 0, 0, &reg->vfs_phonehash): the value it
\* returns is not looked at.
connect_to_me(r, rc) ==
    Step([r EXCEPT !.vfs_phonehash = IF rc = EOK THEN PhoneHash ELSE @,
                   !.failed = IF rc = EOK THEN @
                              ELSE Append(@, <<"ipc_connect_to_me", rc>>)],
         "ipc_connect_to_me")

register_connect_to_me ==
    /\ At("ipc_connect_to_me")
    /\ \E rc \in {EOK, ELIMIT} : reg' = connect_to_me(reg, rc)
    /\ OnlyReg

\* reg->plb_ro = as_get_mappable_page(PLB_SIZE); if (!reg->plb_ro) ...
register_as_get ==
    /\ At("as_get_mappable_page")
    /\ \E page \in {NULL, PlbPage} :
         reg' = IF page = NULL
                THEN Fail([reg EXCEPT !.plb_ro = page], "as_get_mappable_page",
                          ENOMEM)
                ELSE Step([reg EXCEPT !.plb_ro = page], "as_get_mappable_page")
    /\ OnlyReg

\* rc = ipc_share_in_start_0_0(vfs_phone, reg->plb_ro, PLB_SIZE); if (rc) ...
register_share_in ==
    /\ At("ipc_share_in_start_0_0")
    /\ \E rc \in {EOK, EPERM} :
         reg' = IF rc # EOK
                THEN Fail(reg, "ipc_share_in_start_0_0", rc)
                ELSE Step([reg EXCEPT !.rc = rc, !.mapped = TRUE],
                          "ipc_share_in_start_0_0")
    /\ OnlyReg

\* async_wait_for(req, NULL); reg->fs_handle = (int) IPC_GET_ARG1(answer);
register_wait ==
    /\ At("async_wait_for")
    /\ reg.answer.set
    /\ reg' = Step([reg EXCEPT !.pending = FALSE, !.awaited = @ + 1,
                               !.fs_handle = reg.answer.arg1],
                   "async_wait_for")
    /\ OnlyReg

\* async_new_connection(reg->vfs_phonehash, 0, NULL, conn);
register_new_connection ==
    /\ At("async_new_connection")
    /\ reg' = Step([reg EXCEPT !.conn = TRUE], "async_new_connection")
    /\ OnlyReg

\* async_set_client_connection(conn);
register_set_client_connection ==
    /\ At("async_set_client_connection")
    /\ reg' = Step([reg EXCEPT !.client_conn = TRUE],
                   "async_set_client_connection")
    /\ OnlyReg

\* return IPC_GET_RETVAL(answer);
register_return ==
    /\ At("return")
    /\ reg' = Step([reg EXCEPT !.returned = TRUE, !.retval = reg.answer.retval],
                   "return")
    /\ OnlyReg

\* As fail_return, leaving without the wait.
fail_return_no_wait(r) == [r EXCEPT !.returned = TRUE, !.retval = r.rc]

\* The error path of a statement: async_wait_for(req, NULL); return rc;
fail_return(r) ==
    [r EXCEPT !.pending = FALSE, !.awaited = @ + 1,
              !.steps = Append(@, "async_wait_for"),
              !.returned = TRUE, !.retval = r.rc]

register_fail ==
    /\ reg.failing
    /\ ~reg.returned
    /\ reg.answer.set
    /\ reg' = fail_return(reg)
    /\ OnlyReg

\* VFS answers the VFS_REGISTER call, out of order: with the handle once the
\* info structure, the callback connection and the PLB share all went through,
\* with an error at any time.
vfs_register_answer ==
    /\ reg.pending
    /\ ~reg.answer.set
    /\ \E retval \in {EOK, ENOTSUP} :
         /\ retval = EOK =>
               /\ reg.mapped
               /\ reg.vfs_phonehash = PhoneHash
               /\ reg.failed = <<>>
         /\ reg' = [reg EXCEPT !.answer =
                       [set |-> TRUE, retval |-> retval,
                        arg1 |-> IF retval = EOK THEN FsHandle ELSE 0]]
    /\ OnlyReg

register_step ==
    \/ register_send
    \/ register_data_write
    \/ register_connect_to_me
    \/ register_as_get
    \/ register_share_in
    \/ register_wait
    \/ register_new_connection
    \/ register_set_client_connection
    \/ register_return
    \/ register_fail

\* The requests VFS sends to a file system it has registered, served by the
\* connection fibril once there is one.
RegFlags == {{}, {L_CREATE}, {L_UNLINK}, {L_LINK}}

vfs_lookup_registered(p) ==
    /\ reg.answer.set
    /\ reg.answer.retval = EOK
    /\ reg.conn
    /\ lk[p].pc = "idle"
    /\ served < MaxLookups
    /\ \E path \in Paths, lflag \in RegFlags :
         \E index \in IndicesFor(lflag), orc \in OrcsFor(lflag) :
            Issue(p, path, 0, lflag, index, orc)
    /\ pre' = [pre EXCEPT ![p] = nodes]
    /\ served' = served + 1
    /\ UNCHANGED <<nodes, hist, twin, reg, ui>>

\* A request of the kinds VFS sends, its path at either offset of the PLB.
vfs_lookup_at(p) ==
    /\ lk[p].pc = "idle"
    /\ served < MaxLookups
    /\ \E path \in Paths, off \in Offsets, lflag \in RegFlags :
         \E index \in IndicesFor(lflag), orc \in OrcsFor(lflag) :
            Issue(p, path, off, lflag, index, orc)
    /\ pre' = [pre EXCEPT ![p] = nodes]
    /\ served' = served + 1
    /\ UNCHANGED <<nodes, hist, twin, reg, ui>>

(***************************************************************************)
(* ui_window_add(), ui_window_remove(): the control of a window.           *)
(***************************************************************************)
Windows == 1 .. MaxWindows

Controls == 1 .. MaxControls

\* Windows as ui_window_create() and controls as ui_control_new() leave them:
\* no control in any window, no control in any container.
NoControls ==
    [control |-> [w \in Windows |-> NULL],
     elemp |-> [c \in Controls |-> NULL],
     shared |-> FALSE]

\* A call whose assertion holds; shared records that a control was added
\* while its elemp pointed to a window.
ui_window_add(window, control) ==
    /\ ui.control[window] = NULL
    /\ ui' = [ui EXCEPT !.control[window] = control,
                        !.elemp[control] = window,
                        !.shared = @ \/ ui.elemp[control] # NULL]
    /\ UNCHANGED <<plb, nodes, lk, answers, trace, held, req, pre, served, hist,
                   twin, reg>>

\* A call whose two assertions hold.
ui_window_remove(window, control) ==
    /\ ui.control[window] = control
    /\ ui.elemp[control] = window
    /\ ui' = [ui EXCEPT !.control[window] = NULL,
                        !.elemp[control] = NULL]
    /\ UNCHANGED <<plb, nodes, lk, answers, trace, held, req, pre, served, hist,
                   twin, reg>>

(***************************************************************************)
(* Specifications.                                                         *)
(***************************************************************************)
Init ==
    /\ plb = [i \in 0 .. (PLB_SIZE - 1) |-> Pad]
    /\ nodes = InitNodes
    /\ lk = [p \in Procs |-> IdleFrame]
    /\ answers = [p \in Procs |-> <<>>]
    /\ trace = [p \in Procs |-> <<>>]
    /\ held = [p \in Procs |-> NoneHeld]
    /\ req = [p \in Procs |-> NoRequest]
    /\ pre = [p \in Procs |-> InitNodes]
    /\ served = 0
    /\ hist = NoHist
    /\ twin = NoTwin
    /\ reg = Registered
    /\ ui = NoControls

\* One connection fibril serving arbitrary lookups one after another.
Next ==
    \/ vfs_lookup(1)
    \/ lookup_step(1)

Spec == Init /\ [][Next]_vars

\* One connection fibril serving creation requests one after another.
NextSeq ==
    \/ vfs_lookup_create(1)
    \/ lookup_step(1)

SpecSeq == Init /\ [][NextSeq]_vars

\* A wrapped request, then the same request with its path stored contiguously.
NextWrap ==
    \/ vfs_lookup_wrapped(1)
    \/ vfs_lookup_contiguous(1)
    \/ lookup_step(1)

SpecWrap == Init /\ [][NextWrap]_vars

\* The file system server from its start: fs_register(), then the lookups.
InitReg ==
    /\ plb = [i \in 0 .. (PLB_SIZE - 1) |-> Pad]
    /\ nodes = InitNodes
    /\ lk = [p \in Procs |-> IdleFrame]
    /\ answers = [p \in Procs |-> <<>>]
    /\ trace = [p \in Procs |-> <<>>]
    /\ held = [p \in Procs |-> NoneHeld]
    /\ req = [p \in Procs |-> NoRequest]
    /\ pre = [p \in Procs |-> InitNodes]
    /\ served = 0
    /\ hist = NoHist
    /\ twin = NoTwin
    /\ reg = Unregistered
    /\ ui = NoControls

NextReg ==
    \/ register_step
    \/ vfs_register_answer
    \/ vfs_lookup_registered(1)
    \/ lookup_step(1)

SpecReg == InitReg /\ [][NextReg]_vars

\* Lookups against the backend of HybridNodes.
InitHybrid ==
    /\ plb = [i \in 0 .. (PLB_SIZE - 1) |-> Pad]
    /\ nodes = HybridNodes
    /\ lk = [p \in Procs |-> IdleFrame]
    /\ answers = [p \in Procs |-> <<>>]
    /\ trace = [p \in Procs |-> <<>>]
    /\ held = [p \in Procs |-> NoneHeld]
    /\ req = [p \in Procs |-> NoRequest]
    /\ pre = [p \in Procs |-> InitNodes]
    /\ served = 0
    /\ hist = NoHist
    /\ twin = NoTwin
    /\ reg = Registered
    /\ ui = NoControls

NextHybrid ==
    \/ vfs_lookup_registered(1)
    \/ lookup_step(1)

SpecHybrid == InitHybrid /\ [][NextHybrid]_vars

\* Two connection fibrils, each serving a lookup, their steps interleaved.
NextConc ==
    \E p \in Procs :
        \/ vfs_lookup_concurrent(p)
        \/ lookup_step(p)

SpecConc == Init /\ [][NextConc]_vars

\* Every call of the operations table returns: a lookup that can take a step
\* takes it.
NextTerm ==
    \/ vfs_lookup_at(1)
    \/ lookup_step(1)

SpecTerm == Init /\ [][NextTerm]_vars /\ WF_vars(lookup_step(1))

\* Any sequence of ui_window_add() and ui_window_remove() calls whose
\* assertions hold, on any of the windows and controls.
NextUi ==
    \E window \in Windows, control \in Controls :
        \/ ui_window_add(window, control)
        \/ ui_window_remove(window, control)

SpecUi == Init /\ [][NextUi]_vars

\* A request that may add a link, then, when its path lies below /b, the same
\* request below /a.
NextBranch ==
    \/ vfs_lookup_link(1)
    \/ vfs_lookup_sibling(1)
    \/ lookup_step(1)

SpecBranch == Init /\ [][NextBranch]_vars

(***************************************************************************)
(* Vocabulary of the properties.                                           *)
(***************************************************************************)
Done(p) == lk[p].pc = "done"

Has(p, flag) == flag \in req[p].lflag

Ops(p) == {trace[p][i].op : i \in 1 .. Len(trace[p])}

\* The calls of operation op made for the request, in order.
CallsOf(p, op) == SelectSeq(trace[p], LAMBDA e : e.op = op)

\* The components of a path: the maximal runs of non-separator characters.
RECURSIVE Split(_, _, _)
Split(path, i, comp) ==
    IF i > Len(path)
    THEN IF comp = <<>> THEN <<>> ELSE <<comp>>
    ELSE IF path[i] = "/"
    THEN (IF comp = <<>> THEN <<>> ELSE <<comp>>) \o Split(path, i + 1, <<>>)
    ELSE Split(path, i + 1, Append(comp, path[i]))

Components(p) == Split(req[p].path, 1, <<>>)

\* The node reached from the root by matching the components in order.
RECURSIVE Walk(_, _, _)
Walk(nd, n, comps) ==
    IF comps = <<>> \/ n = NULL THEN n
    ELSE Walk(nd, match(nd, n, Head(comps)), Tail(comps))

\* In the node table as it was when the request was issued: the node the
\* path names, and the node its all-but-last components name.
Leaf(p) == Walk(pre[p], root_get(req[p].dev), Components(p))

Parent(p) ==
    IF Components(p) = <<>> THEN NULL
    ELSE Walk(pre[p], root_get(req[p].dev),
              SubSeq(Components(p), 1, Len(Components(p)) - 1))

LastName(p) == Components(p)[Len(Components(p))]

TypeOK ==
    /\ served \in 0 .. (MaxLookups + MaxSeq)
    /\ \A p \in Procs : lk[p].pc \in
          {"idle", "start", "loop", "match", "miss_create", "miss_link",
           "miss_destroy", "excess", "exc_create", "exc_link", "exc_destroy",
           "hit", "hit_lnkcnt", "hit_unlink", "out", "done"}

(***************************************************************************)
(* Properties of libfs_lookup().                                           *)
(***************************************************************************)

\* C1: when libfs_lookup returns it has sent exactly one answer to the
\* request, never none and never two, whatever the flags and whatever the
\* backend did.
C1_ExactlyOneAnswer ==
    \A p \in Procs : Done(p) => Len(answers[p]) = 1

\* The lookups that do not send exactly one answer are the misses in the last
\* component with L_PARENT and without L_CREATE and L_LINK: they send two.
C1_OnlyParentMissAnswersTwice ==
    \A p \in Procs :
        (Done(p) /\ Len(answers[p]) # 1) =>
            /\ Has(p, L_PARENT) /\ ~Has(p, L_CREATE) /\ ~Has(p, L_LINK)
            /\ Len(answers[p]) = 2
            /\ answers[p][1].retval = EOK
            /\ answers[p][2] = Reply(ENOENT, <<>>)

\* C2: when libfs_lookup returns, every node reference it acquired (root_get,
\* match, create, node_get) has been released (node_put, or destroy of a
\* created node).
C2_AllReferencesReleased ==
    \A p \in Procs : Done(p) => held[p] = NoneHeld

\* The lookups that return holding a reference are those that resolved the
\* link target with node_get (L_LINK without L_CREATE) and failed to link it.
C2_OnlyFailedLinkLeaks ==
    \A p \in Procs :
        (Done(p) /\ held[p] # NoneHeld) =>
            /\ Has(p, L_LINK) /\ ~Has(p, L_CREATE)
            /\ Len(CallsOf(p, "link")) = 1
            /\ CallsOf(p, "link")[1].rc # EOK
            /\ held[p] = [NoneHeld EXCEPT ![lk[p].fn] = 1]

\* C3: a lookup without flags of a path whose components all exist answers
\* EOK with fs_handle, the request's device handle and the index, size and
\* link count the backend reports for the node the path names, and leaves the
\* backend's nodes as they were.
C3_ExistingPathNoFlags ==
    \A p \in Procs :
        (Done(p) /\ req[p].lflag = {} /\ Leaf(p) # NULL) =>
            /\ answers[p] =
                 <<Reply(EOK, <<FsHandle, req[p].dev,
                                index_get(nodes, Leaf(p)),
                                size_get(nodes, Leaf(p)),
                                lnkcnt_get(nodes, Leaf(p))>>)>>
            /\ nodes = pre[p]

C3_Witness ==
    /\ Done(1)
    /\ req[1].lflag = {}
    /\ req[1].path = <<"/", "a", "/", "b">>
    /\ Leaf(1) = 3
    /\ answers[1] = <<Reply(EOK, <<FsHandle, DevHandle, 3, 5, 1>>)>>

\* Position in the trace of the first entry of operation op (0 when none).
Pos(p, op) ==
    IF op \in Ops(p)
    THEN CHOOSE i \in 1 .. Len(trace[p]) :
            /\ trace[p][i].op = op
            /\ \A j \in 1 .. (i - 1) : trace[p][j].op # op
    ELSE 0

\* The path asks for a name of admissible length in an existing node, and the
\* name was not there when the request was issued.
MissingLast(p) ==
    /\ Components(p) # <<>>
    /\ Parent(p) # NULL
    /\ Len(LastName(p)) < NAME_MAX
    /\ match(pre[p], Parent(p), LastName(p)) = NULL

\* C4: a lookup with L_CREATE of a path whose parent is an existing directory
\* and whose last component is missing calls create, then link(parent, new
\* node, last component), and answers EOK with the new node's index (the
\* backend serving both calls); the next lookup, of the same path with
\* L_CREATE | L_EXCLUSIVE, answers EEXIST and calls neither create nor link.
C4_CreateThenExclusive ==
    \A p \in Procs :
        Done(p) =>
            /\ ( /\ Has(p, L_CREATE)
                 /\ MissingLast(p)
                 /\ is_directory(pre[p], Parent(p))
                 /\ req[p].orc = "none"
                 /\ \E n \in NodeIds : ~pre[p][n].alive )
               => \E fn \in NodeIds :
                    /\ ~pre[p][fn].alive
                    /\ CallsOf(p, "create") = <<Call("create", NULL, fn, <<>>, EOK)>>
                    /\ CallsOf(p, "link") =
                         <<Call("link", Parent(p), fn, LastName(p), EOK)>>
                    /\ Pos(p, "create") < Pos(p, "link")
                    /\ match(nodes, Parent(p), LastName(p)) = fn
                    /\ answers[p] =
                         <<Reply(EOK, <<FsHandle, req[p].dev, index_get(nodes, fn),
                                        size_get(nodes, fn), lnkcnt_get(nodes, fn)>>)>>
            /\ ( /\ hist.node # NULL
                 /\ hist.path = req[p].path
                 /\ {L_CREATE, L_EXCLUSIVE} \subseteq req[p].lflag
                 /\ ~Has(p, L_UNLINK) )
               => /\ answers[p] = <<Reply(EEXIST, <<>>)>>
                  /\ Ops(p) \cap {"create", "link"} = {}
                  /\ nodes = pre[p]

C4_Witness ==
    /\ Done(1)
    /\ hist.node # NULL
    /\ hist.path = req[1].path
    /\ req[1].path = <<"/", "a", "/", "a">>
    /\ req[1].lflag = {L_CREATE, L_EXCLUSIVE}
    /\ Leaf(1) = hist.node
    /\ answers[1] = <<Reply(EEXIST, <<>>)>>

\* C5: a lookup whose last component is missing in an existing node, with none
\* of L_CREATE, L_LINK and L_PARENT, answers ENOENT (whether the node has other
\* children or none) and calls none of create, link, unlink and destroy.
C5_MissWithoutCreate ==
    \A p \in Procs :
        ( /\ Done(p)
          /\ MissingLast(p)
          /\ req[p].lflag \cap {L_CREATE, L_LINK, L_PARENT} = {} )
        => /\ answers[p] = <<Reply(ENOENT, <<>>)>>
           /\ Ops(p) \cap {"create", "node_get", "link", "unlink", "destroy"} = {}
           /\ nodes = pre[p]

\* The miss inside the walk loop: /a has the child b, not a.
C5_Witness ==
    /\ Done(1)
    /\ req[1].path = <<"/", "a", "/", "a">>
    /\ req[1].lflag = {L_UNLINK}
    /\ MissingLast(1)
    /\ has_children(pre[1], Parent(1))
    /\ Len(CallsOf(1, "match")) = 2
    /\ answers[1] = <<Reply(ENOENT, <<>>)>>

\* The miss in the excessive-components branch: /b has no children.
C5_WitnessExcess ==
    /\ Done(1)
    /\ req[1].path = <<"/", "b", "/", "a">>
    /\ req[1].lflag = {}
    /\ MissingLast(1)
    /\ ~has_children(pre[1], Parent(1))
    /\ Len(CallsOf(1, "match")) = 1
    /\ answers[1] = <<Reply(ENOENT, <<>>)>>

\* The first component of the path that is too long (0 when none), and the
\* node its predecessors name.
FirstLong(p) ==
    LET long == {i \in 1 .. Len(Components(p)) : Len(Components(p)[i]) >= NAME_MAX}
    IN  IF long = {} THEN 0
        ELSE CHOOSE i \in long : \A j \in long : i <= j

BeforeLong(p) ==
    Walk(pre[p], root_get(req[p].dev), SubSeq(Components(p), 1, FirstLong(p) - 1))

\* The engine gets to collect the component after node n: in the walk loop
\* when n has children, in the excessive-components branch when n is a
\* childless directory and the request asks to create or link.
Collects(p, n) ==
    \/ has_children(pre[p], n)
    \/ /\ is_directory(pre[p], n)
       /\ req[p].lflag \cap {L_CREATE, L_LINK} # {}

\* C6: a component is answered ENAMETOOLONG exactly when its length is at
\* least NAME_MAX (one of NAME_MAX - 1 characters is accepted), and it is
\* refused before any match, create, node_get or link for it: nothing is
\* created or linked.  Both in the walk loop and in the excessive-components
\* branch.
C6_NameTooLong ==
    \A p \in Procs :
        Done(p) =>
            /\ (\E i \in 1 .. Len(answers[p]) : answers[p][i].retval = ENAMETOOLONG)
               => /\ answers[p] = <<Reply(ENAMETOOLONG, <<>>)>>
                  /\ FirstLong(p) # 0
                  /\ BeforeLong(p) # NULL
                  /\ Len(CallsOf(p, "match")) = FirstLong(p) - 1
                  /\ Ops(p) \cap {"create", "node_get", "link", "unlink", "destroy"} = {}
                  /\ nodes = pre[p]
            /\ (FirstLong(p) # 0 /\ BeforeLong(p) # NULL /\ Collects(p, BeforeLong(p)))
               => answers[p] = <<Reply(ENAMETOOLONG, <<>>)>>
            /\ \A i \in 1 .. Len(trace[p]) :
                  trace[p][i].op \in {"match", "link"}
                  => Len(trace[p][i].name) <= NAME_MAX - 1

\* Refused in the excessive-components branch.
C6_Witness ==
    /\ Done(1)
    /\ req[1].path = <<"/", "b", "/", "a", "a", "a">>
    /\ req[1].lflag = {L_CREATE}
    /\ FirstLong(1) = 2
    /\ Len(Components(1)[2]) = NAME_MAX
    /\ answers[1] = <<Reply(ENAMETOOLONG, <<>>)>>

\* Refused in the walk loop.
C6_WitnessWalk ==
    /\ Done(1)
    /\ req[1].path = <<"/", "a", "a", "a">>
    /\ req[1].lflag = {L_CREATE}
    /\ answers[1] = <<Reply(ENAMETOOLONG, <<>>)>>

\* A name of NAME_MAX - 1 characters is linked.
C6_WitnessAccepted ==
    /\ Done(1)
    /\ req[1].path = <<"/", "a", "a">>
    /\ req[1].lflag = {L_CREATE}
    /\ Len(LastName(1)) = NAME_MAX - 1
    /\ "link" \in Ops(1)
    /\ answers[1][1].retval = EOK

\* The request's path wraps around the end of the PLB: last < next.
Wrapped(p) == req[p].off + Len(req[p].path) > PLB_SIZE

\* C7: a request whose path wraps around the PLB (last < next) gets the same
\* answer, with the same calls of the operations table in the same order and
\* the same effect on the backend, as the request with the same path stored
\* contiguously, for every flag set and backend outcome.
C7_WrapTransparent ==
    \A p \in Procs :
        (Done(p) /\ twin.set) =>
            /\ ~Wrapped(p)
            /\ answers[p] = twin.answers
            /\ trace[p] = twin.trace
            /\ nodes = twin.nodes

\* /b/a created in the empty directory /b by both runs.
C7_Witness ==
    /\ Done(1)
    /\ twin.set
    /\ req[1].off = 0
    /\ req[1].path = <<"/", "b", "/", "a">>
    /\ req[1].lflag = {L_CREATE}
    /\ twin.answers = <<Reply(EOK, <<FsHandle, DevHandle, 4, 0, 1>>)>>
    /\ answers[1] = twin.answers
    /\ "link" \in Ops(1)

\* C8: on a hit of an existing node other than the root with L_UNLINK, the
\* engine reads the node's link count, then calls unlink(par, cur), and its one
\* answer carries unlink's status and the link count as read before the call,
\* not the count after the removal.
C8_UnlinkAnswersOldCount ==
    \A p \in Procs :
        ( /\ Done(p)
          /\ Has(p, L_UNLINK)
          /\ Components(p) # <<>>
          /\ Leaf(p) # NULL )
        => LET u == CallsOf(p, "unlink")
           IN  /\ Len(u) = 1
               /\ ~Has(p, L_PARENT) => (u[1].node = Leaf(p) /\ u[1].par = Parent(p))
               /\ CallsOf(p, "lnkcnt_get") =
                    <<Call("lnkcnt_get", NULL, u[1].node, <<>>, EOK)>>
               /\ Pos(p, "lnkcnt_get") < Pos(p, "unlink")
               /\ Pos(p, "unlink") < Pos(p, "ipc_answer")
               /\ answers[p] =
                    <<Reply(u[1].rc,
                            <<FsHandle, req[p].dev, index_get(nodes, u[1].node),
                              size_get(nodes, u[1].node),
                              lnkcnt_get(pre[p], u[1].node)>>)>>
               /\ u[1].rc = EOK =>
                    lnkcnt_get(nodes, u[1].node) = lnkcnt_get(pre[p], u[1].node) - 1

\* /a/b unlinked: the answer says one link, the node has none left.
C8_Witness ==
    /\ Done(1)
    /\ req[1].path = <<"/", "a", "/", "b">>
    /\ req[1].lflag = {L_UNLINK}
    /\ answers[1] = <<Reply(EOK, <<FsHandle, DevHandle, 3, 5, 1>>)>>
    /\ lnkcnt_get(nodes, 3) = 0
    /\ match(nodes, 1, <<"b">>) = NULL

\* C9: on a hit with none of L_PARENT, L_UNLINK, L_LINK and
\* L_CREATE | L_EXCLUSIVE: L_FILE on a directory answers EISDIR, L_DIRECTORY
\* on a file answers ENOTDIR; the answer carries no triplet and the backend
\* is not changed.
C9_TypeChecks ==
    \A p \in Procs :
        ( /\ Done(p)
          /\ Leaf(p) # NULL
          /\ req[p].lflag \cap {L_PARENT, L_UNLINK, L_LINK} = {}
          /\ ~({L_CREATE, L_EXCLUSIVE} \subseteq req[p].lflag) )
        => /\ (Has(p, L_FILE) /\ is_directory(pre[p], Leaf(p)))
              => (answers[p] = <<Reply(EISDIR, <<>>)>> /\ nodes = pre[p])
           /\ (Has(p, L_DIRECTORY) /\ is_file(pre[p], Leaf(p)))
              => (answers[p] = <<Reply(ENOTDIR, <<>>)>> /\ nodes = pre[p])

C9_Witness ==
    /\ Done(1)
    /\ req[1].path = <<"/", "a", "/", "b">>
    /\ req[1].lflag = {L_DIRECTORY}
    /\ is_file(pre[1], Leaf(1))
    /\ answers[1] = <<Reply(ENOTDIR, <<>>)>>

C9_WitnessFile ==
    /\ Done(1)
    /\ req[1].path = <<"/", "a">>
    /\ req[1].lflag = {L_FILE}
    /\ is_directory(pre[1], Leaf(1))
    /\ answers[1] = <<Reply(EISDIR, <<>>)>>

\* C10: when link fails, a node obtained by create (L_CREATE) is destroyed
\* before the answer is sent, the answer is the bare status link returned, and
\* the directory's children are as before; a node obtained by node_get
\* (L_LINK without L_CREATE) is not destroyed.
C10_RollbackOnLinkFailure ==
    \A p \in Procs :
        (Done(p) /\ \E i \in 1 .. Len(trace[p]) :
                        trace[p][i].op = "link" /\ trace[p][i].rc # EOK)
        => LET l == CallsOf(p, "link")[1]
           IN  /\ Len(CallsOf(p, "link")) = 1
               /\ answers[p] = <<Reply(l.rc, <<>>)>>
               /\ nodes[l.par].kids = pre[p][l.par].kids
               /\ IF Has(p, L_CREATE)
                  THEN /\ CallsOf(p, "destroy") =
                            <<Call("destroy", NULL, l.node, <<>>, EOK)>>
                       /\ Pos(p, "create") < Pos(p, "link")
                       /\ Pos(p, "link") < Pos(p, "destroy")
                       /\ Pos(p, "destroy") < Pos(p, "ipc_answer")
                       /\ ~nodes[l.node].alive
                       /\ nodes = pre[p]
                  ELSE /\ "destroy" \notin Ops(p)
                       /\ "node_get" \in Ops(p)
                       /\ nodes[l.node].alive
                       /\ nodes = pre[p]

\* The created node fails to link in /a (walk loop) and is destroyed.
C10_Witness ==
    /\ Done(1)
    /\ req[1].path = <<"/", "a", "/", "a">>
    /\ req[1].lflag = {L_CREATE}
    /\ req[1].orc = "link"
    /\ CallsOf(1, "link") = <<Call("link", 1, 4, <<"a">>, ENOMEM)>>
    /\ "destroy" \in Ops(1)
    /\ answers[1] = <<Reply(ENOMEM, <<>>)>>

\* The same in the empty directory /b (excessive-components branch).
C10_WitnessExcess ==
    /\ Done(1)
    /\ req[1].path = <<"/", "b", "/", "a">>
    /\ req[1].lflag = {L_CREATE}
    /\ req[1].orc = "link"
    /\ "destroy" \in Ops(1)
    /\ answers[1] = <<Reply(ENOMEM, <<>>)>>

\* The node resolved from the link index fails to link and is left alone.
C10_WitnessLink ==
    /\ Done(1)
    /\ req[1].lflag = {L_LINK}
    /\ req[1].index = 3
    /\ req[1].orc = "link"
    /\ "link" \in Ops(1)
    /\ "destroy" \notin Ops(1)
    /\ answers[1] = <<Reply(ENOMEM, <<>>)>>

\* C14: every answer with status EOK carries fs_handle, the request's device
\* handle and the index, size and link count of a node; every answer with an
\* error status carries nothing but the status, except the answer of the
\* L_UNLINK branch, which carries unlink's status and the five values whatever
\* the status is.
C14_ReplyShape ==
    \A p \in Procs :
        \A i \in 1 .. Len(trace[p]) :
            IsAnswer(trace[p][i]) =>
                LET e == trace[p][i]
                IN  IF i > 1 /\ trace[p][i - 1].op = "unlink"
                    THEN LET u == trace[p][i - 1]
                         IN  /\ e.rc = u.rc
                             /\ e.args = <<FsHandle, req[p].dev,
                                           index_get(nodes, u.node),
                                           size_get(nodes, u.node),
                                           lnkcnt_get(pre[p], u.node)>>
                    ELSE IF e.rc = EOK
                    THEN \E n \in NodeIds :
                            /\ nodes[n].alive
                            /\ e.args = <<FsHandle, req[p].dev,
                                          index_get(nodes, n), size_get(nodes, n),
                                          lnkcnt_get(nodes, n)>>
                    ELSE e.args = <<>>

\* unlink refused by the backend: the status comes with the five values.
C14_Witness ==
    /\ Done(1)
    /\ req[1].path = <<"/", "a", "/", "b">>
    /\ req[1].lflag = {L_UNLINK}
    /\ req[1].orc = "unlink"
    /\ answers[1] = <<Reply(EBUSY, <<FsHandle, DevHandle, 3, 5, 1>>)>>

\* A node created and linked: EOK with the triplet of the new node.
C14_WitnessCreate ==
    /\ Done(1)
    /\ req[1].path = <<"/", "a", "/", "a">>
    /\ req[1].lflag = {L_CREATE, L_DIRECTORY}
    /\ answers[1] = <<Reply(EOK, <<FsHandle, DevHandle, 4, 0, 1>>)>>

\* An error other than unlink's: the status alone.
C14_WitnessError ==
    /\ Done(1)
    /\ req[1].path = <<"/", "a", "/", "b">>
    /\ req[1].lflag = {L_CREATE, L_EXCLUSIVE}
    /\ answers[1] = <<Reply(EEXIST, <<>>)>>

\* C15: with lookups running concurrently, their calls interleaved in any
\* order, a lookup releases only references it acquired itself (it never puts
\* a node more often than it got it), and a step of one lookup leaves the
\* frame (par, cur, tmp, fn), the references and the calls of the other as
\* they are.
C15_RequestLocalReferences ==
    [][ \A p \in Procs :
          /\ \A n \in NodeIds : held'[p][n] >= 0
          /\ (lk[p].pc # "idle" /\ lk'[p] # lk[p]) =>
                \A q \in Procs \ {p} :
                    /\ lk'[q] = lk[q]
                    /\ held'[q] = held[q]
                    /\ trace'[q] = trace[q] ]_vars

\* Fibril 1 has put its reference to /a and returned while fibril 2, which
\* got its own reference to /a, still holds it.
C15_Witness ==
    /\ lk[1].pc = "done"
    /\ held[1] = NoneHeld
    /\ \E i \in 1 .. Len(trace[1]) : trace[1][i] = Put(1)
    /\ lk[2].pc = "match"
    /\ lk[2].cur = 1
    /\ held[2][1] = 1

\* C16: on a hit with L_PARENT and none of L_UNLINK, L_CREATE, L_LINK, L_FILE
\* and L_DIRECTORY, the reference to the node the path names is put and the
\* one answer is EOK with the triplet of its parent, the node in which the
\* last component was matched; when the path names the root, which has no
\* parent, the answer is ENOENT without a triplet.
C16_ParentHit ==
    \A p \in Procs :
        ( /\ Done(p)
          /\ Leaf(p) # NULL
          /\ Has(p, L_PARENT)
          /\ req[p].lflag \cap {L_UNLINK, L_CREATE, L_LINK, L_FILE, L_DIRECTORY} = {} )
        => /\ \E i \in 1 .. Len(trace[p]) :
                 /\ trace[p][i] = Put(Leaf(p))
                 /\ i < Pos(p, "ipc_answer")
           /\ nodes = pre[p]
           /\ IF Components(p) = <<>>
              THEN answers[p] = <<Reply(ENOENT, <<>>)>>
              ELSE answers[p] =
                     <<Reply(EOK, <<FsHandle, req[p].dev,
                                    index_get(nodes, Parent(p)),
                                    size_get(nodes, Parent(p)),
                                    lnkcnt_get(nodes, Parent(p))>>)>>

\* /a/b resolved, the triplet of /a answered.
C16_Witness ==
    /\ Done(1)
    /\ req[1].path = <<"/", "a", "/", "b">>
    /\ req[1].lflag = {L_PARENT}
    /\ Leaf(1) = 3
    /\ Parent(1) = 1
    /\ answers[1] = <<Reply(EOK, <<FsHandle, DevHandle, 1, 0, 1>>)>>

\* The root has no parent.
C16_WitnessRoot ==
    /\ Done(1)
    /\ req[1].path = <<"/">>
    /\ req[1].lflag = {L_PARENT}
    /\ Leaf(1) = 0
    /\ answers[1] = <<Reply(ENOENT, <<>>)>>

\* The last component is missed inside the walk loop (its directory has other
\* children), with L_PARENT and neither L_CREATE nor L_LINK.
ParentMiss(p) ==
    /\ Done(p)
    /\ MissingLast(p)
    /\ has_children(pre[p], Parent(p))
    /\ Has(p, L_PARENT)
    /\ ~Has(p, L_CREATE)
    /\ ~Has(p, L_LINK)

\* C17: on a miss of the last component inside the walk loop with L_PARENT and
\* neither L_CREATE nor L_LINK, the request is answered EOK with the triplet of
\* cur, the directory in which the component was searched, and that is the
\* end of the request: no other answer follows.
C17_ParentMissTerminal ==
    \A p \in Procs :
        ParentMiss(p) =>
            answers[p] = <<Reply(EOK, <<FsHandle, req[p].dev,
                                        index_get(nodes, Parent(p)),
                                        size_get(nodes, Parent(p)),
                                        lnkcnt_get(nodes, Parent(p))>>)>>

\* What the branch does send: the triplet of cur first, then ENOENT.
C17_TripletThenNotFound ==
    \A p \in Procs :
        ParentMiss(p) =>
            answers[p] = <<Reply(EOK, <<FsHandle, req[p].dev,
                                        index_get(nodes, Parent(p)),
                                        size_get(nodes, Parent(p)),
                                        lnkcnt_get(nodes, Parent(p))>>),
                           Reply(ENOENT, <<>>)>>

\* The first component of the path that names no node (0 when all do), and
\* the node its predecessors name.
FirstMiss(p) ==
    LET miss == {i \in 1 .. Len(Components(p)) :
                    Walk(pre[p], root_get(req[p].dev), SubSeq(Components(p), 1, i)) = NULL}
    IN  IF miss = {} THEN 0
        ELSE CHOOSE i \in miss : \A j \in miss : i <= j

BeforeMiss(p) ==
    Walk(pre[p], root_get(req[p].dev), SubSeq(Components(p), 1, FirstMiss(p) - 1))

\* C18: when a component that is not the last one matches no child of the
\* directory reached so far, the answer is ENOENT whatever the flags are,
\* L_CREATE, L_LINK and L_PARENT included, and none of create, node_get and
\* link is called: intermediate components are never created.  (Names up to
\* the missing one are of admissible length; longer ones are refused first.)
C18_IntermediateMiss ==
    \A p \in Procs :
        ( /\ Done(p)
          /\ FirstMiss(p) # 0
          /\ FirstMiss(p) < Len(Components(p))
          /\ is_directory(pre[p], BeforeMiss(p))
          /\ FirstLong(p) = 0 \/ FirstLong(p) > FirstMiss(p) )
        => /\ answers[p] = <<Reply(ENOENT, <<>>)>>
           /\ Ops(p) \cap {"create", "node_get", "link", "unlink", "destroy"} = {}
           /\ nodes = pre[p]

\* /aa/b: the root has children, none named aa; missed in the walk loop.
C18_Witness ==
    /\ Done(1)
    /\ req[1].path = <<"/", "a", "a", "/", "b">>
    /\ req[1].lflag = {L_CREATE, L_LINK, L_PARENT}
    /\ FirstMiss(1) = 1
    /\ has_children(pre[1], BeforeMiss(1))
    /\ CallsOf(1, "match") = <<Call("match", 0, NULL, <<"a", "a">>, EOK)>>
    /\ answers[1] = <<Reply(ENOENT, <<>>)>>

\* /b/a/b: /b is an empty directory; refused among the excessive components.
C18_WitnessExcess ==
    /\ Done(1)
    /\ req[1].path = <<"/", "b", "/", "a", "/", "b">>
    /\ req[1].lflag = {L_CREATE}
    /\ FirstMiss(1) = 2
    /\ ~has_children(pre[1], BeforeMiss(1))
    /\ answers[1] = <<Reply(ENOENT, <<>>)>>

\* The node a hit answers for: the node the path names, its parent with
\* L_PARENT.
Target(p) == IF Has(p, L_PARENT) THEN Parent(p) ELSE Leaf(p)

\* C19: on a hit of an existing name without L_UNLINK: with L_LINK, or with
\* both L_CREATE and L_EXCLUSIVE, the answer is EEXIST and none of create,
\* node_get and link is called; with L_CREATE without L_EXCLUSIVE and without
\* L_LINK no node is created and the answer is the triplet of the existing
\* node, or the error of the L_FILE / L_DIRECTORY test.
C19_HitOfExistingName ==
    \A p \in Procs :
        ( /\ Done(p)
          /\ Leaf(p) # NULL
          /\ Target(p) # NULL
          /\ ~Has(p, L_UNLINK) )
        => /\ (Has(p, L_LINK) \/ {L_CREATE, L_EXCLUSIVE} \subseteq req[p].lflag)
              => /\ answers[p] = <<Reply(EEXIST, <<>>)>>
                 /\ Ops(p) \cap {"create", "node_get", "link", "destroy"} = {}
                 /\ nodes = pre[p]
           /\ (Has(p, L_CREATE) /\ ~Has(p, L_EXCLUSIVE) /\ ~Has(p, L_LINK))
              => /\ Ops(p) \cap {"create", "node_get", "link", "destroy"} = {}
                 /\ nodes = pre[p]
                 /\ answers[p] =
                      <<IF Has(p, L_FILE) /\ is_directory(nodes, Target(p))
                        THEN Reply(EISDIR, <<>>)
                        ELSE IF Has(p, L_DIRECTORY) /\ is_file(nodes, Target(p))
                        THEN Reply(ENOTDIR, <<>>)
                        ELSE Reply(EOK, <<FsHandle, req[p].dev,
                                          index_get(nodes, Target(p)),
                                          size_get(nodes, Target(p)),
                                          lnkcnt_get(nodes, Target(p))>>)>>

\* L_LINK on the existing /a/b.
C19_Witness ==
    /\ Done(1)
    /\ req[1].path = <<"/", "a", "/", "b">>
    /\ req[1].lflag = {L_LINK}
    /\ Leaf(1) = 3
    /\ Ops(1) \cap {"create", "node_get", "link"} = {}
    /\ answers[1] = <<Reply(EEXIST, <<>>)>>

\* L_CREATE | L_EXCLUSIVE on the existing /a/b.
C19_WitnessExclusive ==
    /\ Done(1)
    /\ req[1].path = <<"/", "a", "/", "b">>
    /\ req[1].lflag = {L_CREATE, L_EXCLUSIVE}
    /\ Leaf(1) = 3
    /\ answers[1] = <<Reply(EEXIST, <<>>)>>

\* L_CREATE alone on the existing /a/b: opened, not created.
C19_WitnessOpen ==
    /\ Done(1)
    /\ req[1].path = <<"/", "a", "/", "b">>
    /\ req[1].lflag = {L_CREATE}
    /\ "create" \notin Ops(1)
    /\ answers[1] = <<Reply(EOK, <<FsHandle, DevHandle, 3, 5, 1>>)>>

\* C20: when the last component is missing and L_CREATE or L_LINK is set, but
\* the node it would be linked under is not a directory (the path goes on past
\* a regular file), the answer is ENOTDIR and none of create, node_get and link
\* is called; both when the miss is found in the walk loop (the node has
\* children) and among the excessive components (it has none).
C20_NotADirectory ==
    \A p \in Procs :
        ( /\ Done(p)
          /\ req[p].lflag \cap {L_CREATE, L_LINK} # {}
          /\ Components(p) # <<>>
          /\ Parent(p) # NULL
          /\ ~is_directory(pre[p], Parent(p))
          /\ match(pre[p], Parent(p), LastName(p)) = NULL
          /\ has_children(pre[p], Parent(p)) => Len(LastName(p)) < NAME_MAX )
        => /\ answers[p] = <<Reply(ENOTDIR, <<>>)>>
           /\ Ops(p) \cap {"create", "node_get", "link", "destroy"} = {}
           /\ nodes = pre[p]

\* /a/b/a: /a/b has a child, but not a, and is not a directory (walk loop).
C20_Witness ==
    /\ Done(1)
    /\ req[1].path = <<"/", "a", "/", "b", "/", "a">>
    /\ req[1].lflag = {L_CREATE}
    /\ Parent(1) = 3
    /\ has_children(pre[1], 3)
    /\ Len(CallsOf(1, "match")) = 3
    /\ answers[1] = <<Reply(ENOTDIR, <<>>)>>

\* /aa/b: /aa is a file without children (excessive components).
C20_WitnessExcess ==
    /\ Done(1)
    /\ req[1].path = <<"/", "a", "a", "/", "b">>
    /\ req[1].lflag = {L_LINK}
    /\ Parent(1) = 4
    /\ ~has_children(pre[1], 4)
    /\ Len(CallsOf(1, "match")) = 1
    /\ answers[1] = <<Reply(ENOTDIR, <<>>)>>

\* The calls that obtain a node, link it and roll it back, in order, each
\* without the directory it was made under.
LinkSteps(ev) ==
    LET s == SelectSeq(ev, LAMBDA e : e.op \in {"create", "node_get", "link", "destroy"})
    IN  [i \in 1 .. Len(s) |-> <<s[i].op, s[i].node, s[i].name, s[i].rc>>]

DirNode(nd, dir) == Walk(nd, root_get(DevHandle), Split(dir, 1, <<>>))

\* The request served was first served below the directory /b, which had no
\* children (excessive components), and now below the directory /a, which has
\* children but none of the name asked for (miss in the walk loop): same
\* remaining path text, same flags, same backend outcomes.
Siblings(p) ==
    /\ Done(p)
    /\ twin.set
    /\ Below(req[p].path, FullDir)
    /\ req[p].lflag \cap {L_CREATE, L_LINK} # {}
    /\ DirNode(pre[p], EmptyDir) # NULL
    /\ DirNode(pre[p], FullDir) # NULL
    /\ is_directory(pre[p], DirNode(pre[p], EmptyDir))
    /\ is_directory(pre[p], DirNode(pre[p], FullDir))
    /\ ~has_children(pre[p], DirNode(pre[p], EmptyDir))
    /\ has_children(pre[p], DirNode(pre[p], FullDir))
    /\ match(pre[p], DirNode(pre[p], FullDir), Components(p)[2]) = NULL

\* C21: creating or linking below a directory without children (the branch of
\* the excessive components) and below a directory with children that lacks
\* the name (the miss branch of the walk loop) are the same: for the same
\* remaining path text, flags and backend outcomes both make the same calls of
\* create or node_get, link and destroy with the same component name, each
\* linking under its own directory, send the same answers and leave the
\* backend changed in the same way.  When the remaining text (its first
\* component of admissible length) has further components, the answer of both
\* is ENOENT and nothing is created.
C21_BranchesEquivalent ==
    \A p \in Procs :
        Siblings(p) =>
            LET e == DirNode(pre[p], EmptyDir)
                d == DirNode(pre[p], FullDir)
            IN  /\ answers[p] = twin.answers
                /\ LinkSteps(trace[p]) = LinkSteps(twin.trace)
                /\ \A c \in {CallsOf(p, "link")[i] : i \in 1 .. Len(CallsOf(p, "link"))} :
                      c.par = d
                /\ \A i \in 1 .. Len(twin.trace) :
                      twin.trace[i].op = "link" => twin.trace[i].par = e
                /\ nodes[d].kids \ pre[p][d].kids = twin.nodes[e].kids \ pre[p][e].kids
                /\ nodes[e] = pre[p][e]
                /\ twin.nodes[d] = pre[p][d]
                /\ \A n \in NodeIds \ {d, e} : nodes[n] = twin.nodes[n]
                /\ (Len(Components(p)) > 2 /\ Len(Components(p)[2]) < NAME_MAX)
                      => /\ answers[p] = <<Reply(ENOENT, <<>>)>>
                         /\ LinkSteps(trace[p]) = <<>>
                         /\ nodes = pre[p]
                         /\ twin.nodes = pre[p]

\* aa created below /b by the excessive-components branch (one match, of b)
\* and below /a by the walk loop (two matches, the second a miss).
C21_Witness ==
    /\ Siblings(1)
    /\ req[1].path = <<"/", "a", "/", "a", "a">>
    /\ req[1].lflag = {L_CREATE}
    /\ Len(SelectSeq(twin.trace, LAMBDA e : e.op = "match")) = 1
    /\ CallsOf(1, "match")[2] = Call("match", 1, NULL, <<"a", "a">>, EOK)
    /\ LinkSteps(trace[1]) = << <<"create", 4, <<>>, EOK>>,
                                <<"link", 4, <<"a", "a">>, EOK>> >>
    /\ answers[1] = <<Reply(EOK, <<FsHandle, DevHandle, 4, 0, 1>>)>>
    /\ twin.answers = answers[1]

\* The file /a/b linked once more, the backend failing the link.
C21_WitnessLinkFails ==
    /\ Siblings(1)
    /\ req[1].path = <<"/", "a", "/", "a">>
    /\ req[1].lflag = {L_LINK}
    /\ req[1].orc = "link"
    /\ LinkSteps(twin.trace) = << <<"node_get", 3, <<>>, EOK>>,
                                  <<"link", 3, <<"a">>, ENOMEM>> >>
    /\ twin.answers = <<Reply(ENOMEM, <<>>)>>

\* a/b: a further component after the one to create.
C21_WitnessMore ==
    /\ Siblings(1)
    /\ req[1].path = <<"/", "a", "/", "a", "/", "b">>
    /\ req[1].lflag = {L_CREATE, L_LINK}
    /\ twin.answers = <<Reply(ENOENT, <<>>)>>
    /\ "create" \notin Ops(1)

\* The node to link cannot be obtained: create hands out no node, or, for
\* L_LINK without L_CREATE, node_get finds none of the index asked for.
NoNodeToLink(p) ==
    IF Has(p, L_CREATE)
    THEN create_node(pre[p], req[p].orc # "create") = NULL
    ELSE node_get(pre[p], req[p].dev, req[p].index) = NULL

\* C22: when the last component is missing in a directory, L_CREATE or L_LINK
\* is set and the node to link cannot be obtained, the answer is ENOSPC
\* without arguments, the one call of create or node_get is all that is asked
\* of the backend, link and destroy are never called and the directory and
\* every other node stay as they were.
C22_NoSpace ==
    \A p \in Procs :
        ( /\ Done(p)
          /\ req[p].lflag \cap {L_CREATE, L_LINK} # {}
          /\ MissingLast(p)
          /\ is_directory(pre[p], Parent(p))
          /\ NoNodeToLink(p) )
        => /\ answers[p] = <<Reply(ENOSPC, <<>>)>>
           /\ LinkSteps(trace[p]) =
                 << <<IF Has(p, L_CREATE) THEN "create" ELSE "node_get",
                      NULL, <<>>, EOK>> >>
           /\ "unlink" \notin Ops(p)
           /\ nodes = pre[p]

\* create fails for /a/a: the miss is found in the walk loop.
C22_Witness ==
    /\ Done(1)
    /\ req[1].path = <<"/", "a", "/", "a">>
    /\ req[1].lflag = {L_CREATE}
    /\ req[1].orc = "create"
    /\ NoNodeToLink(1)
    /\ CallsOf(1, "create") = <<Call("create", NULL, NULL, <<>>, EOK)>>
    /\ answers[1] = <<Reply(ENOSPC, <<>>)>>

\* create fails for /b/a: /b is empty, the excessive-components branch.
C22_WitnessExcess ==
    /\ Done(1)
    /\ req[1].path = <<"/", "b", "/", "a">>
    /\ req[1].lflag = {L_CREATE, L_LINK}
    /\ req[1].orc = "create"
    /\ ~has_children(pre[1], Parent(1))
    /\ answers[1] = <<Reply(ENOSPC, <<>>)>>

\* L_LINK of an index that names no node.
C22_WitnessNodeGet ==
    /\ Done(1)
    /\ req[1].path = <<"/", "a", "/", "a">>
    /\ req[1].lflag = {L_LINK}
    /\ ~pre[1][req[1].index].alive
    /\ CallsOf(1, "node_get") = <<Call("node_get", NULL, NULL, <<>>, EOK)>>
    /\ answers[1] = <<Reply(ENOSPC, <<>>)>>

\* References to node n taken (root_get, match, create, node_get) and dropped
\* (node_put, destroy) by the first i - 1 entries of the trace.
Taken(p, n, i) ==
    Cardinality({j \in 1 .. (i - 1) :
                    /\ trace[p][j].op \in {"root_get", "match", "create", "node_get"}
                    /\ trace[p][j].node = n})

Dropped(p, n, i) ==
    Cardinality({j \in 1 .. (i - 1) :
                    /\ trace[p][j].op \in {"node_put", "destroy"}
                    /\ trace[p][j].node = n})

\* The nodes entry e of the trace reads or hands to the backend.
Touched(e) ==
    ( CASE e.op = "match" -> {e.par}
        [] e.op \in {"link", "unlink"} -> {e.par, e.node}
        [] e.op \in {"lnkcnt_get", "destroy", "node_put"} -> {e.node}
        [] e.op = "ipc_answer" /\ e.args # <<>> -> {e.args[3]}
        [] OTHER -> {} ) \ {NULL}

\* The node_put of the node just linked (line 1385, 1456) follows the link
\* that succeeded and its answer; every other node_put releases par, cur or
\* tmp.
WalkPut(p, i) ==
    /\ trace[p][i].op = "node_put"
    /\ ~( /\ i > 2
          /\ trace[p][i - 2].op = "link"
          /\ trace[p][i - 2].rc = EOK
          /\ trace[p][i - 2].node = trace[p][i].node )

\* C23: the references held in par, cur and tmp are each released exactly
\* once on every way out; node_put is never called on NULL; no reference is
\* released twice, not after the L_PARENT substitution (cur = par, par = NULL)
\* and not after a descent (par = cur, cur = tmp, tmp = NULL); and no node is
\* used after the reference to it has been released.
C23_CleanupDiscipline ==
    \A p \in Procs :
        /\ \A n \in NodeIds : held[p][n] >= 0
        /\ \A i \in 1 .. Len(trace[p]) :
              /\ trace[p][i].op = "node_put" => trace[p][i].node # NULL
              /\ \A n \in Touched(trace[p][i]) :
                    Taken(p, n, i) > Dropped(p, n, i)
        /\ Done(p) =>
              \A n \in NodeIds :
                  Cardinality({i \in 1 .. Len(trace[p]) :
                                  /\ trace[p][i].op \in {"root_get", "match"}
                                  /\ trace[p][i].node = n})
                  = Cardinality({i \in 1 .. Len(trace[p]) :
                                    WalkPut(p, i) /\ trace[p][i].node = n})

\* L_PARENT on /a/b: the root is put on the descent to b, b at the
\* substitution, and /a, now in cur alone, once at out.
C23_Witness ==
    /\ Done(1)
    /\ req[1].path = <<"/", "a", "/", "b">>
    /\ req[1].lflag = {L_PARENT}
    /\ CallsOf(1, "node_put") = <<Put(0), Put(3), Put(1)>>
    /\ held[1] = NoneHeld

\* ENOENT on a miss in /a: par and cur are put, tmp is NULL.
C23_WitnessMiss ==
    /\ Done(1)
    /\ req[1].path = <<"/", "a", "/", "a">>
    /\ req[1].lflag = {}
    /\ lk[1].tmp = NULL
    /\ CallsOf(1, "node_put") = <<Put(0), Put(1)>>

\* L_PARENT | L_UNLINK on /a/b: unlink is handed /a after b was put.
C23_WitnessUnlink ==
    /\ Done(1)
    /\ req[1].path = <<"/", "a", "/", "b">>
    /\ req[1].lflag = {L_PARENT, L_UNLINK}
    /\ "unlink" \in Ops(1)
    /\ CallsOf(1, "node_put") = <<Put(0), Put(3), Put(1)>>

\* C24: on a hit the flags are looked at in a fixed order.  L_PARENT first:
\* the parent takes the place of the node, ENOENT when there is none.  Then
\* L_UNLINK: unlink is called and its status answered with the node's triplet,
\* with no test of exclusivity or type.  Then EEXIST for L_CREATE with
\* L_EXCLUSIVE or for L_LINK, then EISDIR for L_FILE on a directory, then
\* ENOTDIR for L_DIRECTORY on a file, else EOK with the triplet.  After the
\* substitution all of these look at the parent.
C24_HitPriority ==
    \A p \in Procs :
        (Done(p) /\ Leaf(p) # NULL) =>
            IF Has(p, L_PARENT) /\ Parent(p) = NULL
            THEN /\ answers[p] = <<Reply(ENOENT, <<>>)>>
                 /\ "unlink" \notin Ops(p)
            ELSE IF Has(p, L_UNLINK)
            THEN /\ Len(CallsOf(p, "unlink")) = 1
                 /\ CallsOf(p, "unlink")[1].node = Target(p)
                 /\ answers[p] =
                       <<Reply(CallsOf(p, "unlink")[1].rc,
                               <<FsHandle, req[p].dev,
                                 index_get(pre[p], Target(p)),
                                 size_get(pre[p], Target(p)),
                                 lnkcnt_get(pre[p], Target(p))>>)>>
            ELSE /\ "unlink" \notin Ops(p)
                 /\ nodes = pre[p]
                 /\ answers[p] =
                       <<IF Has(p, L_LINK) \/ {L_CREATE, L_EXCLUSIVE} \subseteq req[p].lflag
                         THEN Reply(EEXIST, <<>>)
                         ELSE IF Has(p, L_FILE) /\ is_directory(pre[p], Target(p))
                         THEN Reply(EISDIR, <<>>)
                         ELSE IF Has(p, L_DIRECTORY) /\ is_file(pre[p], Target(p))
                         THEN Reply(ENOTDIR, <<>>)
                         ELSE Reply(EOK, <<FsHandle, req[p].dev,
                                           index_get(pre[p], Target(p)),
                                           size_get(pre[p], Target(p)),
                                           lnkcnt_get(pre[p], Target(p))>>)>>

\* L_LINK | L_FILE on the directory /a: EEXIST comes before EISDIR.
C24_Witness ==
    /\ Done(1)
    /\ req[1].path = <<"/", "a">>
    /\ req[1].lflag = {L_LINK, L_FILE}
    /\ Leaf(1) = 1
    /\ is_directory(pre[1], 1)
    /\ answers[1] = <<Reply(EEXIST, <<>>)>>

\* L_UNLINK with L_CREATE | L_EXCLUSIVE and L_DIRECTORY on the file /a/b:
\* unlinked, neither EEXIST nor ENOTDIR.
C24_WitnessUnlink ==
    /\ Done(1)
    /\ req[1].path = <<"/", "a", "/", "b">>
    /\ req[1].lflag = {L_UNLINK, L_CREATE, L_EXCLUSIVE, L_DIRECTORY}
    /\ req[1].orc = "none"
    /\ CallsOf(1, "unlink") = <<Call("unlink", 1, 3, <<>>, EOK)>>
    /\ answers[1] = <<Reply(EOK, <<FsHandle, DevHandle, 3, 5, 1>>)>>

\* L_PARENT | L_FILE on the file /a/b: the test looks at the directory /a.
C24_WitnessParent ==
    /\ Done(1)
    /\ req[1].path = <<"/", "a", "/", "b">>
    /\ req[1].lflag = {L_PARENT, L_FILE}
    /\ is_file(pre[1], Leaf(1))
    /\ answers[1] = <<Reply(EISDIR, <<>>)>>

\* Entry i of the trace hands unlink a parent that is there, is held by this
\* lookup, and is the directory in which the node to unlink was matched.
ParentOfMatch(p, i) ==
    /\ trace[p][i].par # NULL
    /\ Taken(p, trace[p][i].par, i) > Dropped(p, trace[p][i].par, i)
    /\ \E j \in 1 .. (i - 1) :
          /\ trace[p][j].op = "match"
          /\ trace[p][j].par = trace[p][i].par
          /\ trace[p][j].node = trace[p][i].node

\* C26: whenever libfs_lookup calls unlink(par, cur), par is a reference this
\* lookup holds to the directory in which cur was matched, never NULL, for
\* every flag set with L_UNLINK, L_PARENT and the path of the root included.
C26_UnlinkParentHeld ==
    \A p \in Procs :
        \A i \in 1 .. Len(trace[p]) :
            trace[p][i].op = "unlink" => ParentOfMatch(p, i)

\* It is so for every path below the root when L_PARENT is not set ...
C26_HeldWithoutParentFlag ==
    \A p \in Procs :
        \A i \in 1 .. Len(trace[p]) :
            (trace[p][i].op = "unlink" /\ ~Has(p, L_PARENT) /\ Components(p) # <<>>)
                => ParentOfMatch(p, i)

\* ... and with L_PARENT, or for the root itself, unlink is handed no parent.
C26_AbsentParent ==
    \A p \in Procs :
        \A i \in 1 .. Len(trace[p]) :
            (trace[p][i].op = "unlink" /\ (Has(p, L_PARENT) \/ Components(p) = <<>>))
                => trace[p][i].par = NULL

\* L_UNLINK of the root: unlink(NULL, root).
C26_UnlinkRoot ==
    /\ Done(1)
    /\ req[1].path = <<"/">>
    /\ req[1].lflag = {L_UNLINK}
    /\ CallsOf(1, "unlink") = <<Call("unlink", NULL, 0, <<>>, EBUSY)>>

\* L_PARENT | L_UNLINK of /a/b: unlink(NULL, /a).
C26_UnlinkParent ==
    /\ Done(1)
    /\ req[1].path = <<"/", "a", "/", "b">>
    /\ req[1].lflag = {L_PARENT, L_UNLINK}
    /\ CallsOf(1, "unlink") = <<Call("unlink", NULL, 1, <<>>, EBUSY)>>

ErrorsOfEngine == {ENAMETOOLONG, ENOENT, ENOTDIR, EISDIR, EEXIST}

C27_WitnessTooLong ==
    /\ Done(1)
    /\ req[1].path = <<"/", "b", "/", "a", "a", "a">>
    /\ {L_CREATE, L_LINK, L_UNLINK} \subseteq req[1].lflag
    /\ answers[1] = <<Reply(ENAMETOOLONG, <<>>)>>
    /\ nodes = pre[1]

\* A flagless miss: nothing but root_get, match and node_put is called.
C27_WitnessNoFlags ==
    /\ Done(1)
    /\ req[1].path = <<"/", "b", "/", "a">>
    /\ req[1].lflag = {}
    /\ answers[1] = <<Reply(ENOENT, <<>>)>>
    /\ Ops(1) = {"root_get", "match", "node_put", "ipc_answer"}

\* Both fibrils were asked, with L_CREATE | L_EXCLUSIVE, for the same name in
\* the same directory, each while the name was missing, and both are through.
CreationRace ==
    /\ \A p \in Procs :
          /\ Done(p)
          /\ req[p].lflag = {L_CREATE, L_EXCLUSIVE}
          /\ MissingLast(p)
          /\ is_directory(pre[p], Parent(p))
    /\ \A p, q \in Procs : req[p].path = req[q].path /\ Parent(p) = Parent(q)

\* C28: each call of the backend being atomic and link() refusing a name that
\* is already in the directory, two lookups that run together with
\* L_CREATE | L_EXCLUSIVE for the same missing name in the same directory end,
\* however their steps interleave, with one of them answered EOK with the
\* triplet of the node it created and the other answered an error; the name
\* is linked to exactly one node, the winner's, and the node the loser had
\* created is destroyed: no node is left without a link.
C28_CreationRace ==
    CreationRace =>
        \E w \in Procs :
            LET l == CHOOSE q \in Procs : q # w
                dir == Parent(w)
                name == LastName(w)
            IN  /\ lk[w].fn # NULL
                /\ answers[w] = <<Reply(EOK, <<FsHandle, req[w].dev,
                                               index_get(nodes, lk[w].fn), 0, 1>>)>>
                /\ answers[l] = <<Reply(EEXIST, <<>>)>>
                /\ {e \in nodes[dir].kids : e[1] = name} = {<<name, lk[w].fn>>}
                /\ lnkcnt_get(nodes, lk[w].fn) = 1
                /\ "create" \in Ops(l) =>
                      /\ lk[l].fn # lk[w].fn
                      /\ CallsOf(l, "destroy") =
                            <<Call("destroy", NULL, lk[l].fn, <<>>, EOK)>>
                      /\ ~nodes[lk[l].fn].alive
                /\ \A n \in NodeIds \ {root_get(DevHandle)} :
                      nodes[n].alive => lnkcnt_get(nodes, n) > 0

\* Both missed the name in /a, both created a node, one link was refused.
C28_Witness ==
    /\ CreationRace
    /\ req[1].path = <<"/", "a", "/", "a">>
    /\ answers[1] = <<Reply(EEXIST, <<>>)>>
    /\ answers[2] = <<Reply(EOK, <<FsHandle, DevHandle, lk[2].fn, 0, 1>>)>>
    /\ CallsOf(1, "link") = <<Call("link", 1, lk[1].fn, <<"a">>, EEXIST)>>
    /\ CallsOf(1, "destroy") = <<Call("destroy", NULL, lk[1].fn, <<>>, EOK)>>
    /\ "create" \in Ops(2)

\* The loser found the name linked when it matched: EEXIST on the hit,
\* nothing created.
C28_WitnessHit ==
    /\ CreationRace
    /\ req[1].path = <<"/", "a", "/", "a">>
    /\ answers[2] = <<Reply(EEXIST, <<>>)>>
    /\ "create" \notin Ops(2)
    /\ "create" \in Ops(1)

\* Below the empty /b: both took the branch of the excessive components.
C28_WitnessExcess ==
    /\ CreationRace
    /\ req[1].path = <<"/", "b", "/", "a">>
    /\ Len(CallsOf(1, "match")) = 1
    /\ Len(CallsOf(2, "match")) = 1
    /\ "destroy" \in Ops(2)

(***************************************************************************)
(* The link count of an L_UNLINK answer under concurrent lookups.          *)
(***************************************************************************)

\* Fibril p has read the link count of cur (line 1478) and has not yet
\* called unlink (line 1479).
BeforeUnlink(p) == lk[p].pc = "hit_unlink"

\* Fibril p calls unlink and answers in this step (lines 1479-1481).
UnlinkStep(p) == BeforeUnlink(p) /\ lk'[p].pc = "out"

\* The link count carried by the last answer sent to fibril p's request.
AnsweredLnkcnt(ans) == ans[Len(ans)].args[5]

\* C31: with lookups running together, each call of the operations table
\* atomic, the link count an L_UNLINK answer carries is the link count the
\* node has in the backend in the state right before that lookup's own call
\* of unlink, also when another lookup linked or unlinked the node after this
\* lookup's lnkcnt_get.
C31_UnlinkReplyCount ==
    [][\A p \in Procs :
          UnlinkStep(p) =>
              AnsweredLnkcnt(answers'[p]) = lnkcnt_get(nodes, lk[p].cur)]_vars

\* What the code does send: the count lnkcnt_get returned, which is the
\* node's count in the state in which lnkcnt_get was called.
C31_ReplyIsCountRead ==
    [][\A p \in Procs :
          UnlinkStep(p) => AnsweredLnkcnt(answers'[p]) = lk[p].old_lnkcnt]_vars

\* A lookup that runs alone answers the count the node has right before its
\* unlink: nothing changes the backend between lines 1478 and 1479.
C31_FreshWhenAlone ==
    \A p \in Procs :
        BeforeUnlink(p) => lk[p].old_lnkcnt = lnkcnt_get(nodes, lk[p].cur)

\* Fibril 1 read the count of /a/b, 1; fibril 2 then linked that node as
\* /a/a: the count is 2 when fibril 1 is about to call unlink.
C31_StaleAfterLink ==
    /\ BeforeUnlink(1)
    /\ lk[1].cur = 3
    /\ lk[1].old_lnkcnt = 1
    /\ lnkcnt_get(nodes, 3) = 2
    /\ CallsOf(2, "link") = <<Call("link", 1, 3, <<"a">>, EOK)>>

\* Both fibrils read the count of /a/b, 1; fibril 2 unlinked it: the count
\* is 0 when fibril 1 is about to call unlink.
C31_StaleAfterUnlink ==
    /\ BeforeUnlink(1)
    /\ lk[1].cur = 3
    /\ lk[1].old_lnkcnt = 1
    /\ lnkcnt_get(nodes, 3) = 0
    /\ CallsOf(2, "unlink") = <<Call("unlink", 1, 3, <<>>, EOK)>>

(***************************************************************************)
(* Termination of libfs_lookup().                                          *)
(***************************************************************************)

\* The length of the range the request names: last - next + 1, last adjusted
\* for a wrapped range.
RangeLen(p) == lk[p].last - req[p].off + 1

\* One step of the lookup never moves the cursor back; an iteration of the
\* walk loop moves it past the characters it collected, at least one, and the
\* separator; the loop of the excessive components past the characters it
\* collected, to the end of the range.
CursorAdvances(p) ==
    /\ (lk[p].pc \notin {"idle", "start", "done"} /\ lk'[p].pc # "idle")
          => lk'[p].next >= lk[p].next
    /\ (lk[p].pc = "loop" /\ lk'[p].pc = "match")
          => /\ Len(lk'[p].component) >= 1
             /\ lk'[p].next = lk[p].next + Len(lk'[p].component) + 1
    /\ (lk[p].pc = "excess" /\ lk'[p].pc = "exc_create")
          => /\ Len(lk'[p].component) >= 1
             /\ lk'[p].next = lk[p].next + Len(lk'[p].component)
             /\ lk'[p].next = lk[p].last + 1

CursorBound(p) ==
    lk[p].pc \notin {"idle", "start"} =>
        /\ lk[p].next >= req[p].off
        /\ lk[p].next <= lk[p].last + 2

\* C30: libfs_lookup terminates for every request with a canonical path: the
\* cursor next strictly increases in every iteration of the walk loop and of
\* the two loops that collect a component and never exceeds last + 2, and,
\* every call of the operations table returning, the lookup gets to its
\* answer and to the cleanup after at most last - next + 1 reads of a
\* character.
C30_TerminatesWithinLength ==
    /\ [][\A p \in Procs : CursorAdvances(p)]_vars
    /\ [](\A p \in Procs : CursorBound(p))
    /\ [](\A p \in Procs :
            lk[p].pc \notin {"idle", "start"} => lk[p].reads <= RangeLen(p))
    /\ \A p \in Procs : (lk[p].pc = "start") ~> Done(p)

\* The same with the number of reads the code needs: the character under the
\* cursor is read once by the loop test and once more when it is stored, and
\* the first character once before the loops, so the reads are bounded by
\* twice the length of the range and one.
C30_Terminates ==
    /\ [][\A p \in Procs : CursorAdvances(p)]_vars
    /\ [](\A p \in Procs : CursorBound(p))
    /\ [](\A p \in Procs :
            lk[p].pc \notin {"idle", "start"} => lk[p].reads <= 2 * RangeLen(p) + 1)
    /\ \A p \in Procs : (lk[p].pc = "start") ~> Done(p)

\* /a/b, wrapped around the end of the buffer: four characters, six reads,
\* the cursor two past last when the walk is over.
C30_Witness ==
    /\ Done(1)
    /\ req[1].path = <<"/", "a", "/", "b">>
    /\ req[1].off = PLB_SIZE - 2
    /\ RangeLen(1) = 4
    /\ lk[1].next = lk[1].last + 2
    /\ lk[1].reads = 6
    /\ Len(answers[1]) = 1

\* /b/aa with L_CREATE: the second loop reads each character of aa twice.
C30_WitnessExcess ==
    /\ Done(1)
    /\ req[1].path = <<"/", "b", "/", "a", "a">>
    /\ req[1].lflag = {L_CREATE}
    /\ lk[1].next = lk[1].last + 1
    /\ lk[1].reads = 8

(***************************************************************************)
(* Properties of fs_register().                                            *)
(***************************************************************************)

\* C11: on every return of fs_register, the successful one and the one after
\* each failing statement, the VFS_REGISTER call sent first has been awaited
\* exactly once; it is never awaited twice and never left outstanding.
C11_AwaitedOnceOnEveryReturn ==
    /\ reg.awaited <= 1
    /\ reg.returned => (reg.awaited = 1 /\ ~reg.pending)

\* Return after as_get_mappable_page() found no page.
C11_Witness ==
    /\ reg.returned
    /\ reg.failed = << <<"as_get_mappable_page", ENOMEM>> >>
    /\ reg.retval = ENOMEM
    /\ reg.awaited = 1
    /\ ~reg.pending

\* Return after ipc_data_write_start() failed.
C11_WitnessDataWrite ==
    /\ reg.returned
    /\ reg.failed = << <<"ipc_data_write_start", EINVAL>> >>
    /\ reg.awaited = 1

\* Return after ipc_share_in_start_0_0() failed.
C11_WitnessShareIn ==
    /\ reg.returned
    /\ reg.failed = << <<"ipc_share_in_start_0_0", EPERM>> >>
    /\ reg.awaited = 1

\* The successful return.
C11_WitnessSuccess ==
    /\ reg.returned
    /\ reg.failed = <<>>
    /\ reg.retval = EOK
    /\ reg.awaited = 1

\* The statements fs_register has executed, the wait and the return aside.
Performed == SelectSeq(reg.steps, LAMBDA x : x \notin {"async_wait_for", "return"})

\* C12: when a statement after async_send_0 fails (the transfer of the info
\* structure, the request for the callback connection, the reservation of the
\* address space, the sharing of the PLB), fs_register returns the error of
\* the first statement that failed and executes no statement after it.
C12_FirstFailurePropagated ==
    (reg.returned /\ reg.failed # <<>>) =>
        /\ reg.retval = reg.failed[1][2]
        /\ Performed[Len(Performed)] = reg.failed[1][1]

\* The failure that is not propagated is that of ipc_connect_to_me().
C12_OnlyConnectFailureIgnored ==
    (reg.returned /\ reg.failed # <<>> /\ reg.failed[1][1] # "ipc_connect_to_me") =>
        /\ reg.retval = reg.failed[1][2]
        /\ Performed[Len(Performed)] = reg.failed[1][1]

\* C13: fs_register executes async_send_0, ipc_data_write_start,
\* ipc_connect_to_me, as_get_mappable_page, ipc_share_in_start_0_0,
\* async_wait_for and the store of fs_handle in this order, and creates the
\* connection fibril only after all of them: whenever a lookup is being
\* served, fs_handle is assigned and the PLB is mapped.
C13_RegistrationOrder ==
    LET order == <<"async_send_0", "ipc_data_write_start", "ipc_connect_to_me",
                   "as_get_mappable_page", "ipc_share_in_start_0_0",
                   "async_wait_for", "async_new_connection",
                   "async_set_client_connection", "return">>
        main == IF reg.failing /\ reg.returned
                THEN SubSeq(reg.steps, 1, Len(reg.steps) - 1)
                ELSE reg.steps
    IN  /\ Len(main) <= Len(order)
        /\ main = SubSeq(order, 1, Len(main))
        /\ reg.conn =>
              /\ reg.awaited = 1
              /\ reg.fs_handle = reg.answer.arg1
              /\ reg.mapped
              /\ reg.plb_ro = PlbPage
        /\ \A p \in Procs :
              lk[p].pc # "idle" =>
                 /\ reg.conn
                 /\ reg.fs_handle = FsHandle
                 /\ reg.mapped

\* A lookup served after the registration, before fs_register has returned.
C13_Witness ==
    /\ lk[1].pc = "done"
    /\ req[1].path = <<"/", "a", "/", "b">>
    /\ answers[1] = <<Reply(EOK, <<FsHandle, DevHandle, 3, 5, 1>>)>>
    /\ reg.conn
    /\ ~reg.returned
    /\ reg.fs_handle = FsHandle

\* C29: fs_register creates the connection fibril (async_new_connection) and
\* installs the client connection handler only when the registration
\* succeeded: whenever it returns a status other than EOK, the status VFS put
\* into the awaited answer included, no handling of inbound requests has been
\* started.
C29_ConnectionOnlyOnSuccess ==
    (reg.returned /\ reg.retval # EOK) => (~reg.conn /\ ~reg.client_conn)

\* It is so on the returns of the error paths, which leave before the answer
\* is looked at ...
C29_NoConnectionOnErrorPath ==
    (reg.returned /\ reg.failing) => (~reg.conn /\ ~reg.client_conn)

\* ... and whenever fs_register got as far as the awaited answer, both are
\* started, whatever status the answer carries.
C29_ConnectionWhateverAnswer ==
    (reg.returned /\ ~reg.failing) => (reg.conn /\ reg.client_conn)

\* VFS refused the registration; the connection fibril runs all the same.
C29_RefusedYetConnected ==
    /\ reg.returned
    /\ reg.answer.retval = ENOTSUP
    /\ reg.retval = ENOTSUP
    /\ reg.failed = <<>>
    /\ reg.conn
    /\ reg.client_conn

(***************************************************************************)
(* Properties of ui_window_add() and ui_window_remove().                   *)
(***************************************************************************)

\* C25: a window holds at most one control, and across any sequence of
\* ui_window_add and ui_window_remove calls whose assertions hold a window's
\* control pointer is set exactly when the elemp back-pointer of that control
\* is the window: control c is the one in window w if and only if c->elemp is
\* w.
C25_ControlIffBackPointer ==
    \A w \in Windows, c \in Controls :
        ui.control[w] = c <=> ui.elemp[c] = w

\* What does hold in every such sequence: a control's back-pointer leads to a
\* window that holds it.
C25_BackPointerAttached ==
    \A w \in Windows, c \in Controls :
        ui.elemp[c] = w => ui.control[w] = c

\* And as long as no control is added while it is in a window, the two
\* pointers agree.
C25_DetachedWhenAdded ==
    ~ui.shared => C25_ControlIffBackPointer

\* A control added to a second window: the first window still points to it.
C25_SharedControl ==
    \E w \in Windows, c \in Controls :
        /\ ui.control[w] = c
        /\ ui.elemp[c] \in Windows \ {w}

====
